---- MODULE Spec2Model ----
(***************************************************************************)
(* Model of the compile-time scope and upvalue resolver                    *)
(* (src/src/codegen/scope.rs, struct ScopeTracker and what it owns).       *)
(*                                                                         *)
(* Indices: Rust vectors are 0-based, TLA+ sequences are 1-based.  Slot    *)
(* indices (Local.index), upvalue indices (Upvalue.index) and Scope.depth  *)
(* keep the 0-based values the program stores; positions in the model's    *)
(* own sequences (frames[k], scopes[i], locals[j]) are 1-based.            *)
(* Option<T> is a sequence: None is <<>> and Some(x) is <<x>>.             *)
(*                                                                         *)
(* Left out of Scope: the debug symbol, the continue target and the break  *)
(* sites.  No operation modelled here reads them.                          *)
(***************************************************************************)
EXTENDS Integers, Sequences, FiniteSets, TLC

\* ------------------------------------------------------------------ bounds

\* Largest value of the local-index type (LocalIndex), scaled down.
LocalIndexMax == 1
\* Largest value of the upvalue-index type (UpvalueIndex), scaled down.
UpvalueIndexMax == 0
\* Most call frames on the frame stack.
MaxFrames == 3
\* Most scopes in one scope stack (the top level's or a frame's).
MaxScopes == 2
\* Most scopes alive in the whole tracker (all scope stacks together).
MaxTotalScopes == 4
\* Most locals alive in the whole tracker.
MaxLocals == 2
\* Largest value of the constant-index type (ConstID), scaled down to the least
\* width that leaves room for a two-byte index.
ConstIDMax == 257
\* Width in bits of the integer type (IntType), scaled down.
IntBits == 5
\* Width in bits of the shift count that overflowing_shl and overflowing_shr
\* take (u32), scaled down with it: wide enough for the width of IntType,
\* narrower than IntType.
U32Bits == 3
\* Most GCBox slots allocated at a time.
MaxSlots == 2

\* ------------------------------------------------------------------ inputs

\* LocalName values: a plain symbol and one of the reserved names.
Names == {"a", "Receiver"}

DeclTypes == {"Immutable", "Mutable"}
ScopeTags == {"Block", "Loop", "Branch", "Function"}
\* Labels a scope can carry, and labels a break or continue can ask for.
Labels == {"L1"}
TargetLabels == {"L1", "L2"}

None == <<>>
Some(x) == <<x>>
IsSome(o) == o # <<>>
Unwrap(o) == o[1]

OptLabels == {None} \cup {Some(l) : l \in Labels}
\* The inputs of the specifications that do not look at tags and labels.
PlainTags == {"Block"}
PlainLabels == {None}
\* The declarations of the specification that captures locals: an upvalue only
\* copies its local's mutability.
PlainDecls == {"Immutable"}
ControlFlowTargets ==
    [kind : {"Break", "Continue"}, label : {None} \cup {Some(l) : l \in TargetLabels}]

VARIABLES
    toplevel,          \* ScopeTracker.toplevel : sequence of Scope, outermost first
    frames,            \* ScopeTracker.frames   : sequence of CallFrame, outermost first
    ret,               \* the last call: its name, its arguments and its result
    panicked,          \* TRUE once a call has panicked (expect / debug_assert!)
    debug_assertions,  \* whether the build checks debug_assert!
    retired,           \* history: the depth and the captured slots of the Scope the
                       \* last pop_scope returned, while the tracker stays in its frame
    program,           \* CodeGenerator.program : the chunk and the debug symbols
    errors,            \* CodeGenerator.errors
    position,          \* the number of statements push_stmt has been given
    extra,             \* how many of them were not statements of the opening run
    borrows,           \* GC_STATE: the borrows of the collector state that are held
    deref_safe,        \* the flag that deref_safe() reads
    heap,              \* the GCBox slots that are allocated
    mark_bits,            \* the allocated slots whose mark bit is set
    handles,           \* the slots that a GC handle points to
    pc,                \* what the collector state is held for
    build,             \* build_module / build_source: the stage reached and its result
    stack              \* ErrorContext.stack : sequence of ContextFrame, base frame first

vars ==
    <<toplevel, frames, ret, panicked, debug_assertions, retired,
      program, errors, position, extra,
      borrows, deref_safe, heap, mark_bits, handles, pc,
      build, stack>>

\* The state of the code generator, which no operation of the scope tracker touches.
genVars == <<program, errors, position, extra>>

\* The state of the scope tracker, which no operation of the code generator touches.
scopeVars == <<toplevel, frames, debug_assertions, retired>>

\* The state of the collector, which neither of them touches.
gcVars == <<borrows, deref_safe, heap, mark_bits, handles, pc>>

\* The state of the front end (the build driver and the parser's error context),
\* which none of them touches.
frontVars == <<build, stack>>

\* ------------------------------------------------------------------ ScopeTag

\* Mutant: a Block accepts continue as a Loop does.
accepts_control_flow_block_continue(tag, control_flow) ==
    CASE tag = "Block" -> control_flow.kind \in {"Break", "Continue"}
      [] tag = "Loop"  -> control_flow.kind \in {"Break", "Continue"}
      [] OTHER         -> FALSE

accepts_control_flow(tag, control_flow) ==
    CASE tag = "Block" -> control_flow.kind = "Break"
      [] tag = "Loop"  -> control_flow.kind \in {"Break", "Continue"}
      [] OTHER         -> FALSE

\* ------------------------------------------------------------------ Scope

\* Mutant: the last slot is the one the scope started from, whatever it now holds.
last_index_enclosing(scope) == scope.prev_index

last_index(scope) ==
    IF Len(scope.locals) = 0
    THEN scope.prev_index
    ELSE Some(scope.locals[Len(scope.locals)].index)

\* Position of the first local of the scope with that name, 0 when there is none.
find_local_pos(scope, name) ==
    LET hits == {j \in 1..Len(scope.locals) : scope.locals[j].name = name}
    IN IF hits = {} THEN 0 ELSE CHOOSE j \in hits : \A h \in hits : j <= h

find_local(scope, name) ==
    LET j == find_local_pos(scope, name)
    IN IF j = 0 THEN None ELSE Some(scope.locals[j])

\* Mutant: the slot after the largest one wraps around to slot 0.
push_local_wrapping(scope, decl, name) ==
    LET last == last_index(scope)
    IN [ok |-> TRUE,
        scope |-> [scope EXCEPT !.locals = Append(@,
            [decl |-> decl, name |-> name,
             index |-> IF IsSome(last) THEN (Unwrap(last) + 1) % (LocalIndexMax + 1) ELSE 0,
             captured |-> FALSE])]]

\* Err(InternalLimit) is ok = FALSE, with the scope untouched.
push_local(scope, decl, name) ==
    LET last == last_index(scope)
    IN IF IsSome(last) /\ Unwrap(last) + 1 > LocalIndexMax
       THEN [ok |-> FALSE, scope |-> scope]
       ELSE [ok |-> TRUE,
             scope |-> [scope EXCEPT !.locals = Append(@,
                 [decl |-> decl, name |-> name,
                  index |-> IF IsSome(last) THEN Unwrap(last) + 1 ELSE 0,
                  captured |-> FALSE])]]

\* Mutant: the scope is not searched for the name, every declaration is a new local.
Scope_insert_local_always_new(scope, decl, name) ==
    LET pushed == push_local(scope, decl, name)
    IN IF pushed.ok
       THEN [res |-> <<"CreateNew">>, scope |-> pushed.scope]
       ELSE [res |-> <<"InternalLimit">>, scope |-> pushed.scope]

\* res: <<"CreateNew">>, <<"HideExisting", index>> or <<"InternalLimit">>.
Scope_insert_local(scope, decl, name) ==
    LET j == find_local_pos(scope, name)
        pushed == push_local(scope, decl, name)
    IN IF j # 0
       THEN [res |-> <<"HideExisting", scope.locals[j].index>>,
             scope |-> [scope EXCEPT !.locals[j].decl = decl]]
       ELSE IF pushed.ok
            THEN [res |-> <<"CreateNew">>, scope |-> pushed.scope]
            ELSE [res |-> <<"InternalLimit">>, scope |-> pushed.scope]

\* ------------------------------------------------------------------ NestedScopes

\* Mutant: a new scope does not carry on from the slots of the scopes around it.
NestedScopes_push_scope_restart(scopes, tag, label) ==
    Append(scopes,
        [tag |-> tag, depth |-> Len(scopes), prev_index |-> None,
         locals |-> <<>>, label |-> label])

\* Mutant: a new scope carries on from where the scope around it started, not
\* from its last local.
NestedScopes_push_scope_stale_prev(scopes, tag, label) ==
    Append(scopes,
        [tag |-> tag,
         depth |-> Len(scopes),
         prev_index |-> IF Len(scopes) = 0 THEN None ELSE scopes[Len(scopes)].prev_index,
         locals |-> <<>>,
         label |-> label])

NestedScopes_push_scope(scopes, tag, label) ==
    Append(scopes,
        [tag |-> tag,
         depth |-> Len(scopes),
         prev_index |-> IF Len(scopes) = 0 THEN None ELSE last_index(scopes[Len(scopes)]),
         locals |-> <<>>,
         label |-> label])

NestedScopes_pop_scope(scopes) == SubSeq(scopes, 1, Len(scopes) - 1)

\* Mutant: the scopes are walked outermost first (the .rev() is missing).
iter_nro_forward(scopes) == [i \in 1..Len(scopes) |-> i]

\* Positions of the scopes in name resolution order: innermost first.
iter_nro(scopes) == [i \in 1..Len(scopes) |-> Len(scopes) + 1 - i]

\* ------------------------------------------------------------------ CallFrame

CallFrame_new ==
    [scopes |-> NestedScopes_push_scope(<<>>, "Function", None), upvalues |-> <<>>]

\* Mutant: the lookup never finds the upvalue the frame already holds.
find_upval_never(frame, name) == None

\* Mutant: the lookup takes the frame's first upvalue, whatever its name.
find_upval_any(frame, name) ==
    IF Len(frame.upvalues) = 0 THEN None ELSE Some(frame.upvalues[1])

find_upval(frame, name) ==
    LET hits == {i \in 1..Len(frame.upvalues) : frame.upvalues[i].name = name}
    IN IF hits = {} THEN None
       ELSE Some(frame.upvalues[CHOOSE i \in hits : \A h \in hits : i <= h])

\* Mutant: the index of the upvalue after the largest one wraps around to 0.
create_upval_for_local_wrapping(frame, local) ==
    [ok |-> TRUE,
     frame |-> [frame EXCEPT !.upvalues = Append(@,
         [index |-> Len(frame.upvalues) % (UpvalueIndexMax + 1), decl |-> local.decl,
          name |-> local.name, target |-> <<"Local", local.index>>])],
     local |-> [local EXCEPT !.captured = TRUE]]

\* Mutant: the upvalue is created and the local is not marked as captured.
create_upval_for_local_unmarked(frame, local) ==
    IF Len(frame.upvalues) > UpvalueIndexMax
    THEN [ok |-> FALSE, frame |-> frame, local |-> local]
    ELSE [ok |-> TRUE,
          frame |-> [frame EXCEPT !.upvalues = Append(@,
              [index |-> Len(frame.upvalues), decl |-> local.decl, name |-> local.name,
               target |-> <<"Local", local.index>>])],
          local |-> local]

\* UpvalueIndex::try_from(len) fails when len does not fit the index type.
create_upval_for_local(frame, local) ==
    IF Len(frame.upvalues) > UpvalueIndexMax
    THEN [ok |-> FALSE, frame |-> frame, local |-> local]
    ELSE [ok |-> TRUE,
          frame |-> [frame EXCEPT !.upvalues = Append(@,
              [index |-> Len(frame.upvalues), decl |-> local.decl, name |-> local.name,
               target |-> <<"Local", local.index>>])],
          local |-> [local EXCEPT !.captured = TRUE]]

\* Mutant: the chained upvalue is a copy of the upvalue it chains to, target
\* included, under its own index.
create_upval_for_upval_copied_target(frame, upval) ==
    IF Len(frame.upvalues) > UpvalueIndexMax
    THEN [ok |-> FALSE, frame |-> frame]
    ELSE [ok |-> TRUE,
          frame |-> [frame EXCEPT !.upvalues = Append(@,
              [index |-> Len(frame.upvalues), decl |-> upval.decl, name |-> upval.name,
               target |-> upval.target])]]

\* Mutant: the chained upvalue is given a Local target, as in create_upval_for_local.
create_upval_for_upval_local_target(frame, upval) ==
    IF Len(frame.upvalues) > UpvalueIndexMax
    THEN [ok |-> FALSE, frame |-> frame]
    ELSE [ok |-> TRUE,
          frame |-> [frame EXCEPT !.upvalues = Append(@,
              [index |-> Len(frame.upvalues), decl |-> upval.decl, name |-> upval.name,
               target |-> <<"Local", upval.index>>])]]

create_upval_for_upval(frame, upval) ==
    IF Len(frame.upvalues) > UpvalueIndexMax
    THEN [ok |-> FALSE, frame |-> frame]
    ELSE [ok |-> TRUE,
          frame |-> [frame EXCEPT !.upvalues = Append(@,
              [index |-> Len(frame.upvalues), decl |-> upval.decl, name |-> upval.name,
               target |-> <<"Upvalue", upval.index>>])]]

\* ------------------------------------------------------------------ ScopeTracker

\* The first position of `order` (a sequence of positions) that is among the
\* accepted ones, 0 when there is none: Iterator::find_map over the scopes.
FindFirst(order, accepted) ==
    LET hits == {n \in 1..Len(order) : order[n] \in accepted}
    IN IF hits = {} THEN 0 ELSE order[CHOOSE n \in hits : \A h \in hits : n <= h]

\* Scope stacks are named by a number: 0 is the top level, k > 0 is frames[k].
scopes_at(tl, fr, id) == IF id = 0 THEN tl ELSE fr[id].scopes

\* Mutant: the top level's scopes are handed out whatever the frame stack holds.
local_scopes_toplevel(fr) == 0

\* Mutant: a frame with no scope of its own hands out the stack that encloses it.
local_scopes_fallback(fr) ==
    IF Len(fr) = 0 THEN 0
    ELSE IF Len(fr[Len(fr)].scopes) <= 1 THEN Len(fr) - 1
    ELSE Len(fr)

\* The stack local_scopes() hands out: the top frame's, the top level's with no frame.
local_scopes(fr) == IF Len(fr) = 0 THEN 0 ELSE Len(fr)

with_scopes(tl, fr, id, scopes) ==
    IF id = 0
    THEN [toplevel |-> scopes, frames |-> fr]
    ELSE [toplevel |-> tl, frames |-> [fr EXCEPT ![id].scopes = scopes]]

\* A reference to a Local: its stack, its scope's position, its position in the scope.
resolve_local(tl, fr, name) ==
    LET id == local_scopes(fr)
        scopes == scopes_at(tl, fr, id)
        holds == {n \in 1..Len(scopes) : IsSome(find_local(scopes[n], name))}
        i == FindFirst(iter_nro(scopes), holds)
    IN IF i = 0 THEN None
       ELSE Some([stack |-> id, scope |-> i, pos |-> find_local_pos(scopes[i], name)])

\* A reference to a Scope: its stack and its position in the stack.
resolve_control_flow(tl, fr, target) ==
    LET id == local_scopes(fr)
        scopes == scopes_at(tl, fr, id)
        matches == {n \in 1..Len(scopes) :
                       /\ accepts_control_flow(scopes[n].tag, target)
                       /\ (target.label = None \/ target.label = scopes[n].label)}
        i == FindFirst(iter_nro(scopes), matches)
    IN IF i = 0 THEN None ELSE Some([stack |-> id, scope |-> i])

\* res: <<"Some", upvalue index>>, <<"None">> or <<"InternalLimit">>; toplevel and
\* frames are the tracker's state when the helper returns (also when it fails).
RECURSIVE resolve_upval_helper(_, _, _, _)
resolve_upval_helper(tl, fr, name, frame_idx) ==
    LET current_frame == fr[frame_idx]
        existing == find_upval(current_frame, name)
        enc_id == frame_idx - 1
        enclosing == scopes_at(tl, fr, enc_id)
        holds == {n \in 1..Len(enclosing) : IsSome(find_local(enclosing[n], name))}
        si == FindFirst(iter_nro(enclosing), holds)
    IN IF IsSome(existing)
       THEN [res |-> <<"Some", Unwrap(existing).index>>, toplevel |-> tl, frames |-> fr]
       ELSE IF si # 0
       THEN LET li == find_local_pos(enclosing[si], name)
                made == create_upval_for_local(current_frame, enclosing[si].locals[li])
                marked == with_scopes(tl, fr, enc_id,
                              [enclosing EXCEPT ![si].locals[li] = made.local])
            IN IF ~made.ok
               THEN [res |-> <<"InternalLimit">>, toplevel |-> tl, frames |-> fr]
               ELSE [res |-> <<"Some", Len(current_frame.upvalues)>>,
                     toplevel |-> marked.toplevel,
                     frames |-> [marked.frames EXCEPT ![frame_idx] = made.frame]]
       ELSE IF frame_idx > 1
       THEN LET outer == resolve_upval_helper(tl, fr, name, frame_idx - 1)
            IN IF outer.res[1] = "Some"
               THEN LET upval == outer.frames[frame_idx - 1].upvalues[outer.res[2] + 1]
                        made == create_upval_for_upval(outer.frames[frame_idx], upval)
                    IN IF ~made.ok
                       THEN [outer EXCEPT !.res = <<"InternalLimit">>]
                       ELSE [res |-> <<"Some", Len(outer.frames[frame_idx].upvalues)>>,
                             toplevel |-> outer.toplevel,
                             frames |-> [outer.frames EXCEPT ![frame_idx] = made.frame]]
               ELSE outer
       ELSE [res |-> <<"None">>, toplevel |-> tl, frames |-> fr]

\* Mutant: a failed resolution is rolled back, the tracker is left as it was
\* before the call.
resolve_or_create_upval_rolls_back(tl, fr, name) ==
    IF Len(fr) = 0
    THEN [res |-> <<"None">>, toplevel |-> tl, frames |-> fr]
    ELSE LET done == resolve_upval_helper(tl, fr, name, Len(fr))
         IN IF done.res = <<"InternalLimit">>
            THEN [res |-> done.res, toplevel |-> tl, frames |-> fr]
            ELSE done

resolve_or_create_upval(tl, fr, name) ==
    IF Len(fr) = 0
    THEN [res |-> <<"None">>, toplevel |-> tl, frames |-> fr]
    ELSE resolve_upval_helper(tl, fr, name, Len(fr))

\* ------------------------------------------------------------------ sizes

RECURSIVE SumLocals(_)
SumLocals(scopes) ==
    IF Len(scopes) = 0 THEN 0
    ELSE Len(scopes[1].locals) + SumLocals(Tail(scopes))

RECURSIVE SumFrames(_)
SumFrames(fr) ==
    IF Len(fr) = 0 THEN 0 ELSE SumLocals(fr[1].scopes) + SumFrames(Tail(fr))

TotalLocals(tl, fr) == SumLocals(tl) + SumFrames(fr)

RECURSIVE SumScopes(_)
SumScopes(fr) ==
    IF Len(fr) = 0 THEN 0 ELSE Len(fr[1].scopes) + SumScopes(Tail(fr))

TotalScopes(tl, fr) == Len(tl) + SumScopes(fr)

\* ================================================================== code generator
\* src/src/codegen.rs, struct CodeGenerator.  Chunk, OpCode and DebugSymbols are
\* declared in modules that codegen.rs only uses; what is modelled of them is what
\* the specification says of them.
\*
\* A byte of the chunk is a record: [op |-> name] is the byte that encodes the
\* opcode `name`, [u8 |-> n] is the literal byte n.  A Variant is a record too:
\* [int |-> v], [float |-> f], [str |-> s], with f and s standing for the float and
\* for the interned-string handle.

\* u8::MAX
U8Max == 255

OpByte(opcode) == [op |-> opcode]
U8(n) == [u8 |-> n]

Integer(v) == [int |-> v]
Float(v) == [float |-> v]
String(v) == [str |-> v]

Chunk_default == [bytes |-> <<>>, consts |-> <<>>]

push_byte(chunk, byte) == [chunk EXCEPT !.bytes = Append(@, byte)]

extend_bytes(chunk, bytes) == [chunk EXCEPT !.bytes = @ \o bytes]

\* The pool keeps one entry per constant: a constant it holds keeps its index, a
\* new one is added at the end, unless the index would not fit the index type.
push_const(chunk, value) ==
    LET hits == {j \in 1..Len(chunk.consts) : chunk.consts[j] = value}
    IN IF hits # {}
       THEN [ok |-> TRUE, cid |-> (CHOOSE j \in hits : TRUE) - 1, chunk |-> chunk]
       ELSE IF Len(chunk.consts) > ConstIDMax
       THEN [ok |-> FALSE, cid |-> 0, chunk |-> chunk]
       ELSE [ok |-> TRUE, cid |-> Len(chunk.consts),
             chunk |-> [chunk EXCEPT !.consts = Append(@, value)]]

\* ConstID::to_le_bytes: the low byte first.
to_le_bytes(cid) == <<U8(cid % (U8Max + 1)), U8(cid \div (U8Max + 1))>>

\* OpCode::instr_len: the opcode's byte and its operand bytes.
instr_len(opcode) ==
    CASE opcode = "LoadConst"   -> 2
      [] opcode = "LoadConst16" -> 3
      [] OTHER                  -> 1

DebugSymbols_push(symbols, symbol) == Append(symbols, symbol)

Program_default == [bytecode |-> Chunk_default, symbols |-> <<>>]

CodeGenerator_new == [program |-> Program_default, errors |-> <<>>]

\* What an emit_* or compile_* call leaves: st is "Ok", "Err" (with the error) or
\* "Panic" (debug_assert!, unimplemented!), gen is the generator as the call left it.
Done(gen) == [st |-> "Ok", gen |-> gen, error |-> None]
Failed(gen, error) == [st |-> "Err", gen |-> gen, error |-> Some(error)]
Aborted(gen) == [st |-> "Panic", gen |-> gen, error |-> None]

\* Mutant: the debug symbol of a zero-operand instruction is not recorded.
emit_instr_no_symbol(gen, symbol, opcode) ==
    IF debug_assertions /\ instr_len(opcode) # 1
    THEN Aborted(gen)
    ELSE Done([gen EXCEPT !.program.bytecode = push_byte(@, OpByte(opcode))])

emit_instr(gen, symbol, opcode) ==
    IF debug_assertions /\ instr_len(opcode) # 1
    THEN Aborted(gen)
    ELSE Done([gen EXCEPT
             !.program.symbols = DebugSymbols_push(@, symbol),
             !.program.bytecode = push_byte(@, OpByte(opcode))])

emit_single(gen, symbol, opcode, byte) ==
    IF debug_assertions /\ instr_len(opcode) # 2
    THEN Aborted(gen)
    ELSE Done([gen EXCEPT
             !.program.symbols = DebugSymbols_push(@, symbol),
             !.program.bytecode = push_byte(push_byte(@, OpByte(opcode)), byte)])

emit_multi(gen, symbol, opcode, bytes) ==
    IF debug_assertions /\ instr_len(opcode) # 1 + Len(bytes)
    THEN Aborted(gen)
    ELSE Done([gen EXCEPT
             !.program.symbols = DebugSymbols_push(@, symbol),
             !.program.bytecode = extend_bytes(push_byte(@, OpByte(opcode)), bytes)])

\* Mutant: the one-byte form is kept for the indices below u8::MAX only.
emit_const_narrow_below(gen, symbol, value) ==
    LET pushed == push_const(gen.program.bytecode, value)
        held == [gen EXCEPT !.program.bytecode = pushed.chunk]
    IN IF ~pushed.ok
       THEN Failed(held, [kind |-> "InternalLimit", symbol |-> Some(symbol)])
       ELSE IF pushed.cid < U8Max
       THEN emit_single(held, symbol, "LoadConst", U8(pushed.cid))
       ELSE emit_multi(held, symbol, "LoadConst16", to_le_bytes(pushed.cid))

emit_const(gen, symbol, value) ==
    LET pushed == push_const(gen.program.bytecode, value)
        held == [gen EXCEPT !.program.bytecode = pushed.chunk]
    IN IF ~pushed.ok
       THEN Failed(held, [kind |-> "InternalLimit", symbol |-> Some(symbol)])
       ELSE IF pushed.cid <= U8Max
       THEN emit_single(held, symbol, "LoadConst", U8(pushed.cid))
       ELSE emit_multi(held, symbol, "LoadConst16", to_le_bytes(pushed.cid))

RECURSIVE compile_expr(_, _, _)
RECURSIVE compile_atom(_, _, _)
RECURSIVE compile_unary_op(_, _, _, _)
RECURSIVE compile_binary_op(_, _, _, _, _)

compile_expr(gen, symbol, expr) ==
    CASE expr.kind = "Atom"     -> compile_atom(gen, symbol, expr.atom)
      [] expr.kind = "UnaryOp"  -> compile_unary_op(gen, symbol, expr.op, expr.expr)
      [] expr.kind = "BinaryOp" -> compile_binary_op(gen, symbol, expr.op, expr.lhs, expr.rhs)
      [] OTHER                  -> Aborted(gen)

\* Mutant: the boolean literals are loaded from the constant pool.
compile_atom_bool_const(gen, symbol, atom) ==
    CASE atom.kind = "Nil"            -> emit_instr(gen, symbol, "Nil")
      [] atom.kind = "EmptyTuple"     -> emit_instr(gen, symbol, "Empty")
      [] atom.kind = "BooleanLiteral" -> emit_const(gen, symbol, [bool |-> atom.value])
      [] atom.kind = "IntegerLiteral" -> emit_const(gen, symbol, Integer(atom.value))
      [] atom.kind = "FloatLiteral"   -> emit_const(gen, symbol, Float(atom.value))
      [] atom.kind = "StringLiteral"  -> emit_const(gen, symbol, String(atom.value))
      [] atom.kind = "Group"          -> compile_expr(gen, symbol, atom.expr)
      [] OTHER                        -> Aborted(gen)

compile_atom(gen, symbol, atom) ==
    CASE atom.kind = "Nil"            -> emit_instr(gen, symbol, "Nil")
      [] atom.kind = "EmptyTuple"     -> emit_instr(gen, symbol, "Empty")
      [] atom.kind = "BooleanLiteral" ->
            emit_instr(gen, symbol, IF atom.value THEN "True" ELSE "False")
      [] atom.kind = "IntegerLiteral" -> emit_const(gen, symbol, Integer(atom.value))
      [] atom.kind = "FloatLiteral"   -> emit_const(gen, symbol, Float(atom.value))
      [] atom.kind = "StringLiteral"  -> emit_const(gen, symbol, String(atom.value))
      [] atom.kind = "Group"          -> compile_expr(gen, symbol, atom.expr)
      [] OTHER                        -> Aborted(gen)

compile_unary_op(gen, symbol, op, expr) ==
    LET operand == compile_expr(gen, symbol, expr)
    IN IF operand.st # "Ok" THEN operand
       ELSE emit_instr(operand.gen, symbol, op)

\* Mutant: the operator instruction is emitted between the two operands.
compile_binary_op_infix(gen, symbol, op, lhs, rhs) ==
    LET left == compile_expr(gen, symbol, lhs)
        between == emit_instr(left.gen, symbol,
                       CASE op.cat = "Shift" /\ op.op = "Left"  -> "Shl"
                         [] op.cat = "Shift" /\ op.op = "Right" -> "Shr"
                         [] OTHER                               -> op.op)
    IN IF left.st # "Ok" THEN left
       ELSE IF op.cat = "Logical" THEN Aborted(left.gen)
       ELSE IF between.st # "Ok" THEN between
       ELSE compile_expr(between.gen, symbol, rhs)

compile_binary_op(gen, symbol, op, lhs, rhs) ==
    LET left == compile_expr(gen, symbol, lhs)
        right == compile_expr(left.gen, symbol, rhs)
    IN IF left.st # "Ok" THEN left
       ELSE IF right.st # "Ok" THEN right
       ELSE IF op.cat = "Logical" THEN Aborted(right.gen)
       ELSE emit_instr(right.gen, symbol,
                CASE op.cat = "Shift" /\ op.op = "Left"  -> "Shl"
                  [] op.cat = "Shift" /\ op.op = "Right" -> "Shr"
                  [] OTHER                               -> op.op)

compile_stmt(gen, symbol, stmt) ==
    IF stmt.kind = "Expression"
    THEN compile_expr(gen, symbol, stmt.expr)
    ELSE Aborted(gen)

\* Mutant: the error of a failed statement is dropped.
push_stmt_drops_error(gen, stmt) ==
    LET done == compile_stmt(gen, stmt.symbol, stmt.variant)
    IN [st |-> IF done.st = "Panic" THEN "Panic" ELSE "Ok", gen |-> done.gen]

push_stmt(gen, stmt) ==
    LET done == compile_stmt(gen, stmt.symbol, stmt.variant)
    IN IF done.st = "Err"
       THEN [st |-> "Ok", gen |-> [done.gen EXCEPT !.errors = Append(@, Unwrap(done.error))]]
       ELSE [st |-> done.st, gen |-> done.gen]

finish(gen) ==
    IF Len(gen.errors) = 0 THEN <<"Ok", gen.program>> ELSE <<"Err", gen.errors>>

\* ------------------------------------------------------------------ code generator: inputs

AtomExpr(atom) == [kind |-> "Atom", atom |-> atom]
NilLit == AtomExpr([kind |-> "Nil"])
EmptyLit == AtomExpr([kind |-> "EmptyTuple"])
BoolLit(b) == AtomExpr([kind |-> "BooleanLiteral", value |-> b])
IntLit(v) == AtomExpr([kind |-> "IntegerLiteral", value |-> v])
FloatLit(v) == AtomExpr([kind |-> "FloatLiteral", value |-> v])
StrLit(v) == AtomExpr([kind |-> "StringLiteral", value |-> v])
Identifier == AtomExpr([kind |-> "Identifier"])
Group(expr) == AtomExpr([kind |-> "Group", expr |-> expr])
Unary(op, expr) == [kind |-> "UnaryOp", op |-> op, expr |-> expr]
Binary(op, lhs, rhs) == [kind |-> "BinaryOp", op |-> op, lhs |-> lhs, rhs |-> rhs]
Arith(op) == [cat |-> "Arithmetic", op |-> op]

UnaryOps == {"Neg", "Pos", "Inv", "Not"}

\* The binary operators that compile_binary_op lowers, and the Logical ones.
LoweredOps ==
    {Arith(op) : op \in {"Mul", "Div", "Mod", "Add", "Sub"}}
        \cup {[cat |-> "Bitwise", op |-> op] : op \in {"And", "Xor", "Or"}}
        \cup {[cat |-> "Shift", op |-> op] : op \in {"Left", "Right"}}
        \cup {[cat |-> "Comparison", op |-> op] : op \in {"LT", "GT", "LE", "GE", "EQ", "NE"}}
LogicalOps == {[cat |-> "Logical", op |-> op] : op \in {"And", "Or"}}

\* Literal atoms.  The integer -1, the float and the string are never among the
\* constants a generator starts with (see PushOpening); the integer 0 is, once the
\* generator holds a constant.
Leaves == {NilLit, EmptyLit, BoolLit(TRUE), BoolLit(FALSE),
           IntLit(0), IntLit(-1), FloatLit(0), StrLit(0)}
Operands == {IntLit(0), IntLit(-1), NilLit}
OperandPairs == {<<IntLit(0), IntLit(-1)>>, <<IntLit(-1), FloatLit(0)>>, <<NilLit, StrLit(0)>>}

\* The expression forms compile_expr does not lower.
Unlowered == {[kind |-> k] : k \in {"Primary", "Assignment", "Declaration", "Tuple",
                                    "ObjectCtor", "Block", "FunctionDef"}}

Exprs ==
    Leaves
        \cup {Group(e) : e \in Operands}
        \cup {Unary(op, e) : op \in UnaryOps, e \in Operands}
        \cup {Binary(op, p[1], p[2]) : op \in LoweredOps \cup LogicalOps, p \in OperandPairs}
        \cup {Binary(Arith("Add"), IntLit(1), Binary(Arith("Mul"), IntLit(2), IntLit(3))),
              Binary(Arith("Mul"), Group(Binary(Arith("Add"), IntLit(-1), IntLit(-2))),
                     Unary("Neg", FloatLit(0))),
              Unary("Not", Group(Unary("Neg", StrLit(0)))),
              Binary(Arith("Sub"), IntLit(-1), Identifier),
              Identifier}
        \cup Unlowered

Expression(expr) == [kind |-> "Expression", expr |-> expr]

Stmts ==
    {Expression(e) : e \in Exprs}
        \cup {[kind |-> k] : k \in {"Echo", "Continue", "Break", "Return"}}

\* The statements that follow a statement other than the first of a program.
FewStmts ==
    {Expression(IntLit(-1)), Expression(IntLit(0)), Expression(NilLit),
     Expression(Binary(Arith("Add"), FloatLit(0), StrLit(0))), [kind |-> "Echo"]}

\* Most statements of a program, after the opening run.
MaxStmts == 3

\* StmtMeta: the statement and its debug symbol, here its place in the source.
StmtMeta(variant, symbol) == [symbol |-> symbol, variant |-> variant]

\* The sources compiled open with a run of integer literals, the i-th statement
\* being the literal i - 1, so that the pool holds the constants 0 .. n - 1 after n
\* statements; the run stops at one of these lengths, around the one-byte index and
\* around the pool's limit.
PrefixSizes == {0, 1, U8Max, U8Max + 1, ConstIDMax, ConstIDMax + 1}

\* ------------------------------------------------------------------ front end: initial values

\* build_module has not been called.  entered lists the stages that were entered,
\* in order; source_text, parse_result and compile_result hold what each stage
\* returned.
Build_new ==
    [pc |-> "start", entered |-> <<>>, source_text |-> None,
     parse_result |-> None, compile_result |-> None, result |-> None]

\* ContextFrame::new.
ContextFrame_new(tag) == [tag |-> tag, start |-> None, end |-> None]

\* ------------------------------------------------------------------ actions

\* ScopeTracker::new, in either build.
Init ==
    /\ toplevel = <<>>
    /\ frames = <<>>
    /\ ret = [op |-> "new"]
    /\ panicked = FALSE
    /\ debug_assertions \in BOOLEAN
    /\ retired = None
    /\ program = Program_default
    /\ errors = <<>>
    /\ position = 0
    /\ extra = 0
    /\ borrows = <<>>
    /\ deref_safe = TRUE
    /\ heap = {}
    /\ mark_bits = {}
    /\ handles = {}
    /\ pc = "idle"
    /\ build = Build_new
    /\ stack = <<ContextFrame_new("TopLevel")>>

\* ScopeTracker::new in a build that checks debug_assert!.  The two builds differ
\* only once a caller has popped the last scope of a call frame.
InitChecked == Init /\ debug_assertions

\* What is remembered of the Scope that pop_scope returns: its depth and the slots
\* of its captured locals; nothing when it has no captured local.
Retire(scope) ==
    LET slots == {scope.locals[j].index :
                     j \in {h \in 1..Len(scope.locals) : scope.locals[h].captured}}
    IN IF slots = {} THEN None ELSE Some([depth |-> scope.depth, slots |-> slots])

Panic(op) ==
    /\ panicked' = TRUE
    /\ ret' = [op |-> op]

PushFrame ==
    /\ ~panicked
    /\ Len(frames) < MaxFrames
    /\ TotalScopes(toplevel, frames) < MaxTotalScopes
    /\ frames' = Append(frames, CallFrame_new)
    /\ ret' = [op |-> "push_frame"]
    /\ retired' = None
    /\ UNCHANGED <<toplevel, panicked, debug_assertions>>
    /\ UNCHANGED <<genVars, frontVars, gcVars>>

PopFrame ==
    /\ ~panicked
    /\ IF Len(frames) = 0
       THEN Panic("pop_frame") /\ UNCHANGED <<frames, retired>>
       ELSE /\ frames' = SubSeq(frames, 1, Len(frames) - 1)
            /\ retired' = None
            /\ ret' = [op |-> "pop_frame"]
            /\ UNCHANGED panicked
    /\ UNCHANGED <<toplevel, debug_assertions>>
    /\ UNCHANGED <<genVars, frontVars, gcVars>>

PushScope(tag, label) ==
    /\ ~panicked
    /\ LET id == local_scopes(frames)
           scopes == scopes_at(toplevel, frames, id)
           new == with_scopes(toplevel, frames, id,
                      NestedScopes_push_scope(scopes, tag, label))
       IN /\ Len(scopes) < MaxScopes
          /\ TotalScopes(toplevel, frames) < MaxTotalScopes
          /\ toplevel' = new.toplevel
          /\ frames' = new.frames
    /\ ret' = [op |-> "push_scope"]
    /\ UNCHANGED <<panicked, debug_assertions, retired>>
    /\ UNCHANGED <<genVars, frontVars, gcVars>>

\* Mutant: the scope is popped and the frame's scope stack is not checked.
PopScope_unchecked ==
    /\ ~panicked
    /\ LET id == local_scopes(frames)
           scopes == scopes_at(toplevel, frames, id)
           new == with_scopes(toplevel, frames, id, NestedScopes_pop_scope(scopes))
       IN IF Len(scopes) = 0
          THEN Panic("pop_scope") /\ UNCHANGED <<toplevel, frames, retired>>
          ELSE /\ toplevel' = new.toplevel
               /\ frames' = new.frames
               /\ retired' = Retire(scopes[Len(scopes)])
               /\ ret' = [op |-> "pop_scope"]
               /\ UNCHANGED panicked
    /\ UNCHANGED debug_assertions
    /\ UNCHANGED <<genVars, frontVars, gcVars>>

PopScope ==
    /\ ~panicked
    /\ LET id == local_scopes(frames)
           scopes == scopes_at(toplevel, frames, id)
           new == with_scopes(toplevel, frames, id, NestedScopes_pop_scope(scopes))
       IN IF Len(scopes) = 0
          THEN Panic("pop_scope") /\ UNCHANGED <<toplevel, frames, retired>>
          ELSE /\ toplevel' = new.toplevel
               /\ frames' = new.frames
               /\ retired' = Retire(scopes[Len(scopes)])
               /\ ret' = [op |-> "pop_scope"]
               /\ panicked' = (debug_assertions /\ Len(frames) > 0
                                  /\ Len(new.frames[Len(frames)].scopes) = 0)
    /\ UNCHANGED debug_assertions
    /\ UNCHANGED <<genVars, frontVars, gcVars>>

\* The tracker holds at most MaxLocals locals; a declaration in a scope whose
\* last slot is the largest of the index type is not held back by that bound:
\* the limit of the index type is what stops it.
InsertLocal(decl, name) ==
    /\ ~panicked
    /\ LET id == local_scopes(frames)
           scopes == scopes_at(toplevel, frames, id)
           done == Scope_insert_local(scopes[Len(scopes)], decl, name)
           new == with_scopes(toplevel, frames, id,
                      [scopes EXCEPT ![Len(scopes)] = done.scope])
       IN IF Len(scopes) = 0
          THEN Panic("insert_local") /\ UNCHANGED <<toplevel, frames>>
          ELSE /\ \/ TotalLocals(new.toplevel, new.frames) <= MaxLocals
                  \/ last_index(scopes[Len(scopes)]) = Some(LocalIndexMax)
               /\ toplevel' = new.toplevel
               /\ frames' = new.frames
               /\ ret' = [op |-> "insert_local", decl |-> decl, name |-> name,
                          res |-> done.res]
               /\ UNCHANGED panicked
    /\ UNCHANGED <<debug_assertions, retired>>
    /\ UNCHANGED <<genVars, frontVars, gcVars>>

ResolveLocal(name) ==
    /\ ~panicked
    /\ ret' = [op |-> "resolve_local", name |-> name,
               res |-> resolve_local(toplevel, frames, name)]
    /\ UNCHANGED <<toplevel, frames, panicked, debug_assertions, retired>>
    /\ UNCHANGED <<genVars, frontVars, gcVars>>

ResolveOrCreateUpval(name) ==
    /\ ~panicked
    /\ LET done == resolve_or_create_upval(toplevel, frames, name)
       IN /\ toplevel' = done.toplevel
          /\ frames' = done.frames
          /\ ret' = [op |-> "resolve_or_create_upval", name |-> name, res |-> done.res]
    /\ UNCHANGED <<panicked, debug_assertions, retired>>
    /\ UNCHANGED <<genVars, frontVars, gcVars>>

ResolveControlFlow(target) ==
    /\ ~panicked
    /\ ret' = [op |-> "resolve_control_flow", target |-> target,
               res |-> resolve_control_flow(toplevel, frames, target)]
    /\ UNCHANGED <<toplevel, frames, panicked, debug_assertions, retired>>
    /\ UNCHANGED <<genVars, frontVars, gcVars>>

\* The operations every specification has.
Structure(tags, labels) ==
    \/ PushFrame
    \/ PopFrame
    \/ \E tag \in tags, label \in labels : PushScope(tag, label)
    \/ PopScope

Next ==
    \/ Structure(ScopeTags, OptLabels)
    \/ \E decl \in DeclTypes, name \in Names : InsertLocal(decl, name)
    \/ \E name \in Names : ResolveLocal(name)
    \/ \E name \in Names : ResolveOrCreateUpval(name)
    \/ \E target \in ControlFlowTargets : ResolveControlFlow(target)

Spec == Init /\ [][Next]_vars

\* Locals: declaration, redeclaration, shadowing and lookup.
NextLocals ==
    \/ Structure(PlainTags, PlainLabels)
    \/ \E decl \in DeclTypes, name \in Names : InsertLocal(decl, name)
    \/ \E name \in Names : ResolveLocal(name)

SpecLocals == InitChecked /\ [][NextLocals]_vars

\* Upvalues: capture across call frames.
NextUpval ==
    \/ Structure(PlainTags, PlainLabels)
    \/ \E decl \in PlainDecls, name \in Names : InsertLocal(decl, name)
    \/ \E name \in Names : ResolveOrCreateUpval(name)

SpecUpval == InitChecked /\ [][NextUpval]_vars

\* Control flow: break and continue targets.
NextControlFlow ==
    \/ Structure(ScopeTags, OptLabels)
    \/ \E target \in ControlFlowTargets : ResolveControlFlow(target)

SpecControlFlow == InitChecked /\ [][NextControlFlow]_vars

\* The scope and frame stacks alone, in either build.
NextStructure == Structure(ScopeTags, PlainLabels)

SpecStructure == Init /\ [][NextStructure]_vars

\* ------------------------------------------------------------------ code generator: actions

\* One turn of compile_program's loop (one call of push_stmt).
PushStmt(variant) ==
    /\ ~panicked
    /\ ret.op # "finish"
    /\ LET done == push_stmt([program |-> program, errors |-> errors],
                             StmtMeta(variant, position + 1))
       IN /\ program' = done.gen.program
          /\ errors' = done.gen.errors
          /\ panicked' = (done.st = "Panic")
    /\ position' = position + 1
    /\ ret' = [op |-> "push_stmt", stmt |-> StmtMeta(variant, position + 1)]
    /\ UNCHANGED <<scopeVars, gcVars, frontVars>>

\* The next statement of the opening run.
PushOpening ==
    /\ extra = 0
    /\ position < ConstIDMax + 1
    /\ PushStmt(Expression(IntLit(position)))
    /\ UNCHANGED extra

\* The next statement of the program that follows the opening run.
PushNext ==
    /\ extra < MaxStmts
    /\ extra = 0 => position \in PrefixSizes
    /\ \E variant \in (IF extra = 0 THEN Stmts ELSE FewStmts) :
         /\ extra > 0 => ret.op = "push_stmt" /\ ret.stmt.variant \in FewStmts
         /\ PushStmt(variant)
    /\ extra' = extra + 1

\* finish consumes the generator: nothing is compiled after it.
Finish ==
    /\ ~panicked
    /\ ret.op # "finish"
    /\ ret' = [op |-> "finish", res |-> finish([program |-> program, errors |-> errors])]
    /\ UNCHANGED <<panicked, genVars, frontVars, scopeVars, gcVars>>

NextCodegen == PushOpening \/ PushNext \/ Finish

SpecCodegen == Init /\ [][NextCodegen]_vars

\* ------------------------------------------------------------------ primitive operators
\* src/src/runtime/ops.rs.  Variant, IntType and FloatType are defined outside
\* the files at hand: IntType is a fixed-width signed integer of IntBits bits
\* (two's complement), a Float holds either a finite number, kept as a fraction
\* in lowest terms, or an infinity or a NaN.  Rounding and the sign of zero are
\* left out: the operands are small, and a quotient stands for the f64 nearest
\* to it.  Every operand is finite.

IntMin == -(2 ^ (IntBits - 1))
IntMax == 2 ^ (IntBits - 1) - 1
IntType == IntMin..IntMax

Variant_Nil == [nil |-> TRUE]
EmptyTuple == [empty |-> TRUE]
BoolTrue == [bool |-> TRUE]
BoolFalse == [bool |-> FALSE]
InternStr(s) == [intern |-> s]

Abs(x) == IF x < 0 THEN -x ELSE x
Sign(x) == IF x < 0 THEN -1 ELSE IF x = 0 THEN 0 ELSE 1

RECURSIVE GCD(_, _)
GCD(a, b) == IF b = 0 THEN a ELSE GCD(b, a % b)

\* A finite FloatType value n/d, an infinity, the NaN.
Finite(n, d) ==
    LET g == GCD(Abs(n), Abs(d))
    IN [n |-> Sign(d) * (n \div g), d |-> Abs(d) \div g]
Infinite(sign) == [inf |-> sign]
NaN == [nan |-> TRUE]

\* EvalResult<T>: Ok(value), Err(kind), or the call does not return.
Ok(value) == [ok |-> value]
Err(kind) == [err |-> kind]
Panics == [panic |-> TRUE]

\* The ? operator and the Ok(Some(value)) that follows it.
OkSome(result) == IF "ok" \in DOMAIN result THEN Ok(Some(result.ok)) ELSE result

is_arithmetic_primitive(value) == DOMAIN value \in {{"int"}, {"float"}}

is_bitwise_primitive(value) == DOMAIN value \in {{"bool"}, {"int"}}

float_value(value) == IF DOMAIN value = {"int"} THEN Finite(value.int, 1) ELSE value.float

\* All ones for true and all zeros for false, as the bitwise operators use it.
bit_value(value) ==
    IF DOMAIN value = {"int"} THEN value.int ELSE IF value.bool THEN -1 ELSE 0

\* The value of IntBits bits that an exact result is reduced to.
wrapping(x) == ((x - IntMin) % (2 ^ IntBits)) + IntMin

\* Division and remainder of Rust's signed integers: the quotient is rounded
\* toward zero and the remainder has the sign of the dividend.
TruncDiv(a, b) == Sign(a) * Sign(b) * (Abs(a) \div Abs(b))
TruncRem(a, b) == a - b * TruncDiv(a, b)

overflowing_mul(lhs, rhs) == <<wrapping(lhs * rhs), lhs * rhs \notin IntType>>
overflowing_add(lhs, rhs) == <<wrapping(lhs + rhs), lhs + rhs \notin IntType>>
overflowing_sub(lhs, rhs) == <<wrapping(lhs - rhs), lhs - rhs \notin IntType>>
\* Defined for a divisor other than zero.
overflowing_div(lhs, rhs) ==
    IF lhs = IntMin /\ rhs = -1 THEN <<lhs, TRUE>> ELSE <<TruncDiv(lhs, rhs), FALSE>>
\* The count is reduced modulo the width, and the flag tells that it was.
overflowing_shl(lhs, rhs) == <<wrapping(lhs * 2 ^ (rhs % IntBits)), rhs >= IntBits>>
overflowing_shr(lhs, rhs) == <<lhs \div 2 ^ (rhs % IntBits), rhs >= IntBits>>

\* Mutant: the overflow flag is not looked at.
checked_int_math_wrapping(flagged) == Ok(Integer(flagged[1]))

checked_int_math(flagged) ==
    IF flagged[2] THEN Err("OverflowError") ELSE Ok(Integer(flagged[1]))

int_mul(lhs, rhs) == checked_int_math(overflowing_mul(lhs, rhs))
float_mul(lhs, rhs) == Ok(Float(Finite(lhs.n * rhs.n, lhs.d * rhs.d)))

\* Mutant: the overflow flag of the division is dropped.
int_div_unchecked(lhs, rhs) ==
    IF rhs = 0 THEN Panics ELSE Ok(Integer(overflowing_div(lhs, rhs)[1]))

\* overflowing_div panics when the divisor is zero.
int_div(lhs, rhs) ==
    IF rhs = 0 THEN Panics ELSE checked_int_math(overflowing_div(lhs, rhs))
float_div(lhs, rhs) ==
    Ok(Float(IF rhs.n # 0 THEN Finite(lhs.n * rhs.d, lhs.d * rhs.n)
             ELSE IF lhs.n = 0 THEN NaN ELSE Infinite(Sign(lhs.n))))

\* The % of two integers panics when the divisor is zero and when the quotient
\* overflows.
int_mod(lhs, rhs) ==
    IF rhs = 0 \/ (lhs = IntMin /\ rhs = -1) THEN Panics
    ELSE Ok(Integer(TruncRem(lhs, rhs)))
float_mod(lhs, rhs) ==
    Ok(Float(IF rhs.n = 0 THEN NaN
             ELSE LET q == TruncDiv(lhs.n * rhs.d, lhs.d * rhs.n)
                  IN Finite(lhs.n * rhs.d - q * rhs.n * lhs.d, lhs.d * rhs.d)))

int_add(lhs, rhs) == checked_int_math(overflowing_add(lhs, rhs))
float_add(lhs, rhs) == Ok(Float(Finite(lhs.n * rhs.d + rhs.n * lhs.d, lhs.d * rhs.d)))

int_sub(lhs, rhs) == checked_int_math(overflowing_sub(lhs, rhs))
float_sub(lhs, rhs) == Ok(Float(Finite(lhs.n * rhs.d - rhs.n * lhs.d, lhs.d * rhs.d)))

\* Mutant: two integers are coerced to floating point like any two numbers.
match_arm_always_float(lhs, rhs) ==
    IF is_arithmetic_primitive(lhs) /\ is_arithmetic_primitive(rhs) THEN "float" ELSE "none"

\* The arm that the match of eval_binary_arithmetic! and of
\* eval_binary_comparison! selects.
match_arm(lhs, rhs) ==
    IF DOMAIN lhs = {"int"} /\ DOMAIN rhs = {"int"} THEN "int"
    ELSE IF is_arithmetic_primitive(lhs) /\ is_arithmetic_primitive(rhs) THEN "float"
    ELSE "none"

int_arithmetic(name, lhs, rhs) ==
    CASE name = "eval_mul" -> int_mul(lhs, rhs)
      [] name = "eval_div" -> int_div(lhs, rhs)
      [] name = "eval_mod" -> int_mod(lhs, rhs)
      [] name = "eval_add" -> int_add(lhs, rhs)
      [] name = "eval_sub" -> int_sub(lhs, rhs)

float_arithmetic(name, lhs, rhs) ==
    CASE name = "eval_mul" -> float_mul(lhs, rhs)
      [] name = "eval_div" -> float_div(lhs, rhs)
      [] name = "eval_mod" -> float_mod(lhs, rhs)
      [] name = "eval_add" -> float_add(lhs, rhs)
      [] name = "eval_sub" -> float_sub(lhs, rhs)

eval_binary_arithmetic(name, lhs, rhs) ==
    CASE match_arm(lhs, rhs) = "int" -> OkSome(int_arithmetic(name, lhs.int, rhs.int))
      [] match_arm(lhs, rhs) = "float" ->
            OkSome(float_arithmetic(name, float_value(lhs), float_value(rhs)))
      [] OTHER -> Ok(None)

eval_mul(lhs, rhs) == eval_binary_arithmetic("eval_mul", lhs, rhs)
eval_div(lhs, rhs) == eval_binary_arithmetic("eval_div", lhs, rhs)
eval_mod(lhs, rhs) == eval_binary_arithmetic("eval_mod", lhs, rhs)
eval_add(lhs, rhs) == eval_binary_arithmetic("eval_add", lhs, rhs)
eval_sub(lhs, rhs) == eval_binary_arithmetic("eval_sub", lhs, rhs)

\* The bits of a value of IntBits bits, as a number from 0 to 2^IntBits - 1.
Unsigned(x) == x % (2 ^ IntBits)

\* The n low bits of two unsigned numbers combined bit by bit.
RECURSIVE BitwiseOf(_, _, _, _)
BitwiseOf(name, a, b, n) ==
    IF n = 0 THEN 0
    ELSE LET x == a % 2
             y == b % 2
             bit == CASE name = "and" -> IF x = 1 /\ y = 1 THEN 1 ELSE 0
                      [] name = "xor" -> IF x # y THEN 1 ELSE 0
                      [] name = "or" -> IF x = 1 \/ y = 1 THEN 1 ELSE 0
         IN bit + 2 * BitwiseOf(name, a \div 2, b \div 2, n - 1)

Bitwise(name, lhs, rhs) == wrapping(BitwiseOf(name, Unsigned(lhs), Unsigned(rhs), IntBits))

\* bool.into() of Variant.
FromBool(b) == IF b THEN BoolTrue ELSE BoolFalse

bool_and(lhs, rhs) == FromBool(lhs /\ rhs)
int_and(lhs, rhs) == Integer(Bitwise("and", lhs, rhs))
bool_xor(lhs, rhs) == FromBool(lhs # rhs)
int_xor(lhs, rhs) == Integer(Bitwise("xor", lhs, rhs))
bool_or(lhs, rhs) == FromBool(lhs \/ rhs)
int_or(lhs, rhs) == Integer(Bitwise("or", lhs, rhs))

\* Mutant: the integer arm is taken by two Integers only.
bitwise_arm_integers_only(lhs, rhs) ==
    IF DOMAIN lhs = {"bool"} /\ DOMAIN rhs = {"bool"} THEN "bool"
    ELSE IF DOMAIN lhs = {"int"} /\ DOMAIN rhs = {"int"} THEN "int"
    ELSE "none"

\* The arm that the match of eval_binary_bitwise! selects.
bitwise_arm(lhs, rhs) ==
    IF DOMAIN lhs = {"bool"} /\ DOMAIN rhs = {"bool"} THEN "bool"
    ELSE IF is_bitwise_primitive(lhs) /\ is_bitwise_primitive(rhs) THEN "int"
    ELSE "none"

eval_and(lhs, rhs) ==
    CASE bitwise_arm(lhs, rhs) = "bool" -> Some(bool_and(lhs.bool, rhs.bool))
      [] bitwise_arm(lhs, rhs) = "int" -> Some(int_and(bit_value(lhs), bit_value(rhs)))
      [] OTHER -> None

eval_xor(lhs, rhs) ==
    CASE bitwise_arm(lhs, rhs) = "bool" -> Some(bool_xor(lhs.bool, rhs.bool))
      [] bitwise_arm(lhs, rhs) = "int" -> Some(int_xor(bit_value(lhs), bit_value(rhs)))
      [] OTHER -> None

eval_or(lhs, rhs) ==
    CASE bitwise_arm(lhs, rhs) = "bool" -> Some(bool_or(lhs.bool, rhs.bool))
      [] bitwise_arm(lhs, rhs) = "int" -> Some(int_or(bit_value(lhs), bit_value(rhs)))
      [] OTHER -> None

\* Mutant: Nil equals Nil.
eval_eq_nil_reflexive(lhs, rhs) ==
    CASE lhs = Variant_Nil /\ rhs = Variant_Nil -> TRUE
      [] lhs = Variant_Nil \/ rhs = Variant_Nil -> FALSE
      [] DOMAIN lhs = DOMAIN rhs /\ DOMAIN lhs \in {{"empty"}, {"bool"}, {"intern"}, {"int"}} ->
            lhs = rhs
      [] is_arithmetic_primitive(lhs) /\ is_arithmetic_primitive(rhs) ->
            float_value(lhs) = float_value(rhs)
      [] OTHER -> FALSE

\* The arms in the order of the match: Nil on either side, then two values of
\* the same variant among EmptyTuple, the booleans, InternStr and Integer, then
\* two arithmetic primitives as floats, then everything else.  The operands are
\* finite, so that two floats are equal when they are the same fraction.
eval_eq(lhs, rhs) ==
    CASE lhs = Variant_Nil \/ rhs = Variant_Nil -> FALSE
      [] DOMAIN lhs = DOMAIN rhs /\ DOMAIN lhs \in {{"empty"}, {"bool"}, {"intern"}, {"int"}} ->
            lhs = rhs
      [] is_arithmetic_primitive(lhs) /\ is_arithmetic_primitive(rhs) ->
            float_value(lhs) = float_value(rhs)
      [] OTHER -> FALSE

eval_ne(lhs, rhs) == ~eval_eq(lhs, rhs)

int_lt(lhs, rhs) == lhs < rhs
float_lt(lhs, rhs) == lhs.n * rhs.d < rhs.n * lhs.d
int_le(lhs, rhs) == lhs <= rhs
float_le(lhs, rhs) == lhs.n * rhs.d <= rhs.n * lhs.d

eval_lt(lhs, rhs) ==
    CASE match_arm(lhs, rhs) = "int" -> Some(int_lt(lhs.int, rhs.int))
      [] match_arm(lhs, rhs) = "float" -> Some(float_lt(float_value(lhs), float_value(rhs)))
      [] OTHER -> None

eval_le(lhs, rhs) ==
    CASE match_arm(lhs, rhs) = "int" -> Some(int_le(lhs.int, rhs.int))
      [] match_arm(lhs, rhs) = "float" -> Some(float_le(float_value(lhs), float_value(rhs)))
      [] OTHER -> None

\* The largest shift count (u32::MAX).
U32Max == 2 ^ U32Bits - 1

\* rhs.try_into().unwrap(): the count as a u32, and a panic for a count that
\* is not one.
try_into_unwrap(rhs) == IF rhs < 0 \/ rhs > U32Max THEN Panics ELSE Ok(rhs)

\* Mutant: the size of the count is looked at before its sign.
int_shl_overflow_first(lhs, rhs) ==
    IF rhs >= IntBits \/ rhs <= -IntBits THEN Err("OverflowError")
    ELSE IF rhs < 0 THEN Err("NegativeShiftCount")
    ELSE checked_int_math(overflowing_shl(lhs, rhs))

int_shl(lhs, rhs) ==
    IF rhs < 0 THEN Err("NegativeShiftCount")
    ELSE IF try_into_unwrap(rhs) = Panics THEN Panics
    ELSE checked_int_math(overflowing_shl(lhs, try_into_unwrap(rhs).ok))

int_shr(lhs, rhs) ==
    IF rhs < 0 THEN Err("NegativeShiftCount")
    ELSE IF try_into_unwrap(rhs) = Panics THEN Panics
    ELSE checked_int_math(overflowing_shr(lhs, try_into_unwrap(rhs).ok))

\* Mutant: a count of false is a shift by zero bits.
eval_shl_false_as_zero(lhs, rhs) ==
    CASE DOMAIN rhs = {"int"} /\ is_bitwise_primitive(lhs) ->
            OkSome(int_shl(bit_value(lhs), rhs.int))
      [] rhs = BoolTrue /\ is_bitwise_primitive(lhs) -> OkSome(int_shl(bit_value(lhs), 1))
      [] rhs = BoolFalse /\ is_bitwise_primitive(lhs) -> OkSome(int_shl(bit_value(lhs), 0))
      [] OTHER -> Ok(None)

eval_shl(lhs, rhs) ==
    CASE DOMAIN rhs = {"int"} /\ is_bitwise_primitive(lhs) ->
            OkSome(int_shl(bit_value(lhs), rhs.int))
      [] rhs = BoolTrue /\ is_bitwise_primitive(lhs) -> OkSome(int_shl(bit_value(lhs), 1))
      [] rhs = BoolFalse /\ is_bitwise_primitive(lhs) -> Ok(Some(lhs))
      [] OTHER -> Ok(None)

eval_shr(lhs, rhs) ==
    CASE DOMAIN rhs = {"int"} /\ is_bitwise_primitive(lhs) ->
            OkSome(int_shr(bit_value(lhs), rhs.int))
      [] rhs = BoolTrue /\ is_bitwise_primitive(lhs) -> OkSome(int_shr(bit_value(lhs), 1))
      [] rhs = BoolFalse /\ is_bitwise_primitive(lhs) -> Ok(Some(lhs))
      [] OTHER -> Ok(None)

\* ------------------------------------------------------------------ primitive operators: inputs

IntegerValues == {Integer(i) : i \in IntType}
FloatValues == {Float(Finite(0, 1)), Float(Finite(3, 1)), Float(Finite(-5, 2))}
Others == {Variant_Nil, EmptyTuple, BoolTrue, BoolFalse, InternStr("s")}
Variants == IntegerValues \cup FloatValues \cup Others

\* ------------------------------------------------------------------ primitive operators: actions
\* The operators are free functions of their two operands: the operands are
\* drawn at the start, a call reads them and changes nothing, and a call that
\* panics ends the program.

InitEval ==
    /\ toplevel = <<>>
    /\ frames = <<>>
    /\ ret \in {[op |-> "operands", lhs |-> lhs, rhs |-> rhs] : lhs \in Variants, rhs \in Variants}
    /\ panicked = FALSE
    /\ debug_assertions \in BOOLEAN
    /\ retired = None
    /\ program = Program_default
    /\ errors = <<>>
    /\ position = 0
    /\ extra = 0
    /\ borrows = <<>>
    /\ deref_safe = TRUE
    /\ heap = {}
    /\ mark_bits = {}
    /\ handles = {}
    /\ pc = "idle"
    /\ build = Build_new
    /\ stack = <<ContextFrame_new("TopLevel")>>

Evaluate(name, res, arm) ==
    /\ ~panicked
    /\ ret' = [op |-> name, lhs |-> ret.lhs, rhs |-> ret.rhs, res |-> res, arm |-> arm]
    /\ panicked' = (res = Panics)
    /\ UNCHANGED <<scopeVars, genVars, frontVars, gcVars>>

EvalMul == Evaluate("eval_mul", eval_mul(ret.lhs, ret.rhs), match_arm(ret.lhs, ret.rhs))
EvalDiv == Evaluate("eval_div", eval_div(ret.lhs, ret.rhs), match_arm(ret.lhs, ret.rhs))
EvalMod == Evaluate("eval_mod", eval_mod(ret.lhs, ret.rhs), match_arm(ret.lhs, ret.rhs))
EvalAdd == Evaluate("eval_add", eval_add(ret.lhs, ret.rhs), match_arm(ret.lhs, ret.rhs))
EvalSub == Evaluate("eval_sub", eval_sub(ret.lhs, ret.rhs), match_arm(ret.lhs, ret.rhs))
EvalLt == Evaluate("eval_lt", Ok(eval_lt(ret.lhs, ret.rhs)), match_arm(ret.lhs, ret.rhs))
EvalLe == Evaluate("eval_le", Ok(eval_le(ret.lhs, ret.rhs)), match_arm(ret.lhs, ret.rhs))
EvalShl == Evaluate("eval_shl", eval_shl(ret.lhs, ret.rhs), "shift")
EvalShr == Evaluate("eval_shr", eval_shr(ret.lhs, ret.rhs), "shift")

\* Mutant: eval_ge is the comparison of the swapped operands.
eval_ge_swapped(lhs, rhs) == eval_lt(rhs, lhs)

eval_ge(lhs, rhs) ==
    IF eval_lt(lhs, rhs) = None THEN None ELSE Some(~Unwrap(eval_lt(lhs, rhs)))

eval_gt(lhs, rhs) ==
    IF eval_le(lhs, rhs) = None THEN None ELSE Some(~Unwrap(eval_le(lhs, rhs)))

\* eval_eq and eval_ne return a bool, recorded as the Ok of it.
EvalEq == Evaluate("eval_eq", Ok(eval_eq(ret.lhs, ret.rhs)), "eq")
EvalNe == Evaluate("eval_ne", Ok(eval_ne(ret.lhs, ret.rhs)), "eq")
EvalGe == Evaluate("eval_ge", Ok(eval_ge(ret.lhs, ret.rhs)), match_arm(ret.lhs, ret.rhs))
EvalGt == Evaluate("eval_gt", Ok(eval_gt(ret.lhs, ret.rhs)), match_arm(ret.lhs, ret.rhs))

\* The operators that return an Option are recorded as the Ok of it.
EvalAnd == Evaluate("eval_and", Ok(eval_and(ret.lhs, ret.rhs)), bitwise_arm(ret.lhs, ret.rhs))
EvalXor == Evaluate("eval_xor", Ok(eval_xor(ret.lhs, ret.rhs)), bitwise_arm(ret.lhs, ret.rhs))
EvalOr == Evaluate("eval_or", Ok(eval_or(ret.lhs, ret.rhs)), bitwise_arm(ret.lhs, ret.rhs))

NextEval ==
    \/ EvalMul \/ EvalDiv \/ EvalMod \/ EvalAdd \/ EvalSub
    \/ EvalLt \/ EvalLe
    \/ EvalShl \/ EvalShr
    \/ EvalAnd \/ EvalXor \/ EvalOr
    \/ EvalEq \/ EvalNe
    \/ EvalGe \/ EvalGt

SpecEval == InitEval /\ [][NextEval]_vars

\* ------------------------------------------------------------------ GC handles
\* src/src/runtime/gc/handle.rs.  The collector itself (GC_STATE, allocate, the
\* trace and sweep of a cycle, the flag behind deref_safe, GCBox) is defined
\* outside the files at hand: GC_STATE is a thread-local cell whose borrow_mut
\* panics while a borrow is held, a cycle holds the collector state from its
\* start to the end of its sweep, and the flag is cleared for the sweep.
\* The thread is the only one that runs: an operation is attempted in the middle
\* of an allocation or of a cycle when code that the collector calls (a trace,
\* a finalizer) attempts it.

Slots == 1..MaxSlots

\* Mutant: the collector state is borrowed without a look at the borrows held.
borrow_mut_unchecked(who) ==
    /\ borrows' = Append(borrows, who)
    /\ panicked' = FALSE

\* gc.borrow_mut(): panics when the collector state is borrowed already.
borrow_mut(who) ==
    IF borrows = <<>>
    THEN borrows' = <<who>> /\ panicked' = FALSE
    ELSE borrows' = borrows /\ panicked' = TRUE

\* The end of the borrow that was taken last.
Release == SubSeq(borrows, 1, Len(borrows) - 1)

\* GC::new, up to the borrow of the collector state.
GCNewBorrow ==
    /\ ~panicked
    /\ Cardinality(heap) < MaxSlots
    /\ borrow_mut("new")
    /\ pc' = IF panicked' THEN pc ELSE "allocating"
    /\ ret' = [op |-> "borrow_mut", by |-> "new", held |-> borrows]
    /\ UNCHANGED <<deref_safe, heap, mark_bits, handles, scopeVars, genVars, frontVars>>

\* GC::new, from gc.allocate(data) to the return of the handle, where the
\* borrow ends.
GCNewReturn ==
    /\ ~panicked
    /\ pc = "allocating"
    /\ LET slot == CHOOSE free \in Slots \ heap : \A other \in Slots \ heap : free <= other
       IN /\ heap' = heap \cup {slot}
          /\ handles' = handles \cup {slot}
          /\ ret' = [op |-> "GC::new", slot |-> slot]
    /\ borrows' = Release
    /\ pc' = "idle"
    /\ UNCHANGED <<panicked, deref_safe, mark_bits, scopeVars, genVars, frontVars>>

\* GC::inner and GC::inner_mut: the debug_assert! and then the read of the slot.
inner(checked, safe) == IF checked /\ ~safe THEN "panic" ELSE "read"

\* A handle that the running code can use: the handle of an allocated slot, or,
\* in a finalizer that the sweep runs, a handle to a slot the sweep has freed.
Usable == {slot \in handles : slot \in heap \/ pc = "sweeping"}

\* The read of a slot that is freed has no defined outcome: it goes on or
\* the program ends.
Outcomes(slot, read) == IF read /\ slot \notin heap THEN {"read", "crash"} ELSE {"read"}

HandleOp(name, slot, other) ==
    /\ ~panicked
    /\ LET step == inner(debug_assertions, deref_safe)
       IN \E outcome \in Outcomes(slot, step = "read") :
             /\ panicked' = (step = "panic" \/ outcome = "crash")
             /\ ret' = [op |-> name, slot |-> slot, other |-> other,
                        read |-> step = "read", safe |-> deref_safe,
                        freed |-> slot \notin heap]
             /\ mark_bits' = IF name = "mark_trace" /\ step = "read" /\ slot \in heap
                          THEN mark_bits \cup {slot} ELSE mark_bits
    /\ UNCHANGED <<borrows, deref_safe, heap, handles, pc, scopeVars, genVars, frontVars>>

\* Deref::deref, and AsRef::as_ref and Borrow::borrow, which call it.
Deref == \E slot \in Usable, name \in {"deref", "as_ref", "borrow"} : HandleOp(name, slot, slot)

MarkTrace == \E slot \in Usable : HandleOp("mark_trace", slot, slot)

PtrEq == \E slot \in Usable, other \in Usable : HandleOp("ptr_eq", slot, other)

\* The start of a cycle, which borrows the collector state and traces.
CollectBegin ==
    /\ ~panicked
    /\ borrow_mut("cycle")
    /\ pc' = IF panicked' THEN pc ELSE "tracing"
    /\ mark_bits' = IF panicked' THEN mark_bits ELSE {}
    /\ ret' = [op |-> "borrow_mut", by |-> "cycle", held |-> borrows]
    /\ UNCHANGED <<deref_safe, heap, handles, scopeVars, genVars, frontVars>>

\* The sweep starts: handles must not be dereferenced until it ends.
SweepBegin ==
    /\ ~panicked
    /\ pc = "tracing"
    /\ pc' = "sweeping"
    /\ deref_safe' = FALSE
    /\ ret' = [op |-> "sweep"]
    /\ UNCHANGED <<panicked, borrows, heap, mark_bits, handles, scopeVars, genVars, frontVars>>

\* The sweep frees a slot that is not mark_bits, and runs its finalizer.
SweepFree ==
    /\ ~panicked
    /\ pc = "sweeping"
    /\ \E slot \in heap \ mark_bits :
          /\ heap' = heap \ {slot}
          /\ ret' = [op |-> "free", slot |-> slot]
    /\ UNCHANGED <<panicked, borrows, deref_safe, mark_bits, handles, pc, scopeVars, genVars, frontVars>>

\* The cycle ends when every slot left is mark_bits.
SweepEnd ==
    /\ ~panicked
    /\ pc = "sweeping"
    /\ heap \subseteq mark_bits
    /\ deref_safe' = TRUE
    /\ borrows' = Release
    /\ mark_bits' = {}
    /\ pc' = "idle"
    /\ ret' = [op |-> "collected"]
    /\ UNCHANGED <<panicked, heap, handles, scopeVars, genVars, frontVars>>

NextGC ==
    \/ GCNewBorrow \/ GCNewReturn
    \/ Deref \/ MarkTrace \/ PtrEq
    \/ CollectBegin \/ SweepBegin \/ SweepFree \/ SweepEnd

SpecGC == Init /\ [][NextGC]_vars

\* ------------------------------------------------------------------ vocabulary of the properties
\* Written from the claims' words, without the operators of the model above.

HoldsName(scope, name) == \E j \in 1..Len(scope.locals) : scope.locals[j].name = name

LiveIn(scopes, name) == \E i \in 1..Len(scopes) : HoldsName(scopes[i], name)

\* The innermost scope of the stack that holds the name.
InnermostHolder(scopes, name) ==
    CHOOSE i \in 1..Len(scopes) :
        HoldsName(scopes[i], name) /\ \A h \in (i + 1)..Len(scopes) : ~HoldsName(scopes[h], name)

NamePos(scope, name) ==
    CHOOSE j \in 1..Len(scope.locals) :
        scope.locals[j].name = name /\ \A h \in 1..(j - 1) : scope.locals[h].name # name

\* The local a name stands for in a scope stack.
VisibleLocal(scopes, name) ==
    LET scope == scopes[InnermostHolder(scopes, name)]
    IN scope.locals[NamePos(scope, name)]

HasUpval(frame, name) == \E i \in 1..Len(frame.upvalues) : frame.upvalues[i].name = name

\* The scope stack of stack number id (0: the top level) in the current state.
Stack(id) == IF id = 0 THEN toplevel ELSE frames[id].scopes

\* The number of the current stack: the top frame, the top level with no frame.
Top == Len(frames)

\* All the locals of a scope stack, outermost scope first, in declaration order.
RECURSIVE Flat(_)
Flat(scopes) ==
    IF Len(scopes) = 0 THEN <<>> ELSE scopes[1].locals \o Flat(Tail(scopes))

\* The last slot the stack holds, -1 when it holds no local.
LastSlot(scopes) ==
    IF Len(Flat(scopes)) = 0 THEN -1 ELSE Flat(scopes)[Len(Flat(scopes))].index

Upvalues(fr) == [k \in 1..Len(fr) |-> fr[k].upvalues]

\* ------------------------------------------------------------------ C1

\* The step is a call of resolve_or_create_upval.
IsResolveUpval == ret'.op = "resolve_or_create_upval"

\* The name is a live local of stack s below the top frame, no frame above s up to
\* the top frame has captured it, and no frame strictly between holds it as a local.
ChainCase(s, name) ==
    /\ s < Top
    /\ LiveIn(Stack(s), name)
    /\ \A j \in (s + 1)..Top : ~HasUpval(frames[j], name)
    /\ \A j \in (s + 1)..(Top - 1) : ~LiveIn(frames[j].scopes, name)

\* What the claim says the call does in that case.
ChainBuilt(s, name) ==
    /\ Len(frames') = Top
    /\ ret'.res = <<"Some", Len(frames[Top].upvalues)>>
    /\ \A j \in 1..s : frames'[j].upvalues = frames[j].upvalues
    /\ \A j \in (s + 1)..Top :
        LET old == frames[j].upvalues
            new == frames'[j].upvalues
        IN /\ Len(new) = Len(old) + 1
           /\ SubSeq(new, 1, Len(old)) = old
           /\ new[Len(new)].name = name
           /\ new[Len(new)].index = Len(old)
           /\ new[Len(new)].target =
                  IF j = s + 1
                  THEN <<"Local", VisibleLocal(Stack(s), name).index>>
                  ELSE <<"Upvalue", Len(frames[j - 1].upvalues)>>

\* Every frame of the chain can still take an upvalue.
ChainHasRoom(s) == \A j \in (s + 1)..Top : Len(frames[j].upvalues) <= UpvalueIndexMax

NoDuplicateUpval ==
    \A k \in 1..Len(frames) :
        \A i, j \in 1..Len(frames[k].upvalues) :
            frames[k].upvalues[i].name = frames[k].upvalues[j].name => i = j

\* The index the top frame's upvalue table gives to a name it has captured.
CapturedIndex(name) ==
    (CHOOSE u \in {frames[Top].upvalues[i] : i \in 1..Len(frames[Top].upvalues)} :
        u.name = name).index

Unbound(name) ==
    \A s \in 0..(Top - 1) :
        /\ ~LiveIn(Stack(s), name)
        /\ s > 0 => ~HasUpval(frames[s], name)

\* C7: resolve_or_create_upval returns none when the name is bound in no enclosing
\* frame nor at the top level, and when there is no call frame at all; the call
\* then creates no upvalue and changes no local (no captured flag).
C7_UnboundIsNone ==
    [][IsResolveUpval /\ (Top = 0 \/ Unbound(ret'.name)) =>
            /\ ret'.res = <<"None">>
            /\ frames' = frames
            /\ toplevel' = toplevel]_vars

\* None has been returned in a nested frame that holds the name as its own local
\* and holds an upvalue for another name.
C7_Witness ==
    /\ ret.op = "resolve_or_create_upval"
    /\ ret.res = <<"None">>
    /\ Top >= 2
    /\ Unbound(ret.name)
    /\ LiveIn(frames[Top].scopes, ret.name)
    /\ Len(frames[Top].upvalues) > 0

\* ------------------------------------------------------------------ C3

\* The step is a call of insert_local that returned (it did not panic).
IsInsertLocal == ret'.op = "insert_local" /\ ~panicked'

\* The scope stack of stack number id after the step.
StackAfter(id) == IF id = 0 THEN toplevel' ELSE frames'[id].scopes

Innermost(scopes) == scopes[Len(scopes)]

Enclosing(scopes) == SubSeq(scopes, 1, Len(scopes) - 1)

LastLocal(scope) == scope.locals[Len(scope.locals)]

\* C3: a new local gets the slot after the one created before it in the same
\* scope; the first local of a scope gets the slot after the last one the enclosing
\* scopes of the same frame hold, and slot 0 when they hold none, whatever the
\* other frames hold.
C3_SlotMonotonic ==
    [][IsInsertLocal /\ ret'.res = <<"CreateNew">> =>
        LET scope == Innermost(Stack(Top))
            outer == Enclosing(Stack(Top))
            new == LastLocal(Innermost(StackAfter(Top)))
        IN new.index =
              IF Len(scope.locals) > 0 THEN LastLocal(scope).index + 1
              ELSE IF Len(Flat(outer)) > 0 THEN LastSlot(outer) + 1
              ELSE 0]_vars

\* The first local of a nested scope has just been given slot 1, after the slot 0
\* that the enclosing scope of the same frame holds, in a frame whose enclosing
\* stack is not empty.
C3_Witness ==
    /\ ret.op = "insert_local"
    /\ ~panicked
    /\ ret.res = <<"CreateNew">>
    /\ Top >= 1
    /\ Len(Stack(Top)) = 2
    /\ Len(Stack(Top)[1].locals) = 1
    /\ Len(Stack(Top)[2].locals) = 1
    /\ Stack(Top)[2].locals[1].index = 1
    /\ Stack(Top)[2].locals[1].name = ret.name

\* ------------------------------------------------------------------ C4

\* Nothing but the innermost scope of the current stack differs after the step.
OnlyInnermostChanges ==
    /\ Len(frames') = Len(frames)
    /\ Len(StackAfter(Top)) = Len(Stack(Top))
    /\ Enclosing(StackAfter(Top)) = Enclosing(Stack(Top))
    /\ \A k \in 1..(Top - 1) : frames'[k] = frames[k]
    /\ Top > 0 => toplevel' = toplevel /\ frames'[Top].upvalues = frames[Top].upvalues

\* insert_local of a name the innermost scope holds: no new local, the local keeps
\* its slot and captured flag, takes the new mutability, HideExisting(slot).
Redeclares ==
    LET scope == Innermost(Stack(Top))
        j == NamePos(scope, ret'.name)
    IN /\ ret'.res = <<"HideExisting", scope.locals[j].index>>
       /\ Innermost(StackAfter(Top)) = [scope EXCEPT !.locals[j].decl = ret'.decl]
       /\ OnlyInnermostChanges

\* insert_local of a name the innermost scope does not hold: CreateNew and exactly
\* one more local, of that name and mutability, not captured.
CreatesNew ==
    LET scope == Innermost(Stack(Top))
        after == Innermost(StackAfter(Top))
    IN /\ ret'.res = <<"CreateNew">>
       /\ Len(after.locals) = Len(scope.locals) + 1
       /\ SubSeq(after.locals, 1, Len(scope.locals)) = scope.locals
       /\ LastLocal(after).name = ret'.name
       /\ LastLocal(after).decl = ret'.decl
       /\ LastLocal(after).captured = FALSE
       /\ OnlyInnermostChanges

\* insert_local at the limit: InternalLimit and nothing changes.
RefusesNew ==
    /\ ret'.res = <<"InternalLimit">>
    /\ frames' = frames
    /\ toplevel' = toplevel

\* C4 as written: a name of the innermost scope is redeclared in place, any other
\* name gives CreateNew and exactly one new local.
C4_Original ==
    [][IsInsertLocal =>
        IF HoldsName(Innermost(Stack(Top)), ret'.name) THEN Redeclares ELSE CreatesNew]_vars

\* C4 amended: a name of the innermost scope is redeclared in place; any other
\* name gives CreateNew and exactly one new local unless the last slot the frame
\* holds is the largest local index, and then InternalLimit and no change.
C4_Redeclaration ==
    [][IsInsertLocal =>
        IF HoldsName(Innermost(Stack(Top)), ret'.name) THEN Redeclares
        ELSE IF LastSlot(Stack(Top)) < LocalIndexMax THEN CreatesNew
        ELSE RefusesNew]_vars

\* A local has just been redeclared in place with the other mutability.
C4_Witness ==
    /\ ret.op = "insert_local"
    /\ ~panicked
    /\ ret.res[1] = "HideExisting"
    /\ ret.decl = "Mutable"
    /\ Len(Innermost(Stack(Top)).locals) = 2
    /\ \E j \in 1..2 :
          /\ Innermost(Stack(Top)).locals[j].name = ret.name
          /\ Innermost(Stack(Top)).locals[j].index = ret.res[2]
          /\ Innermost(Stack(Top)).locals[j].decl = "Mutable"
    /\ \E j \in 1..2 : Innermost(Stack(Top)).locals[j].decl = "Immutable"

\* ------------------------------------------------------------------ C5

\* The local a reference returned after the step points at.
LocalAfter(r) == StackAfter(r.stack)[r.scope].locals[r.pos]

\* The name is held by the innermost scope and by a scope around it in the same stack.
Shadowed(name) ==
    /\ Len(Stack(Top)) >= 2
    /\ HoldsName(Innermost(Stack(Top)), name)
    /\ LiveIn(Enclosing(Stack(Top)), name)

\* The name is held by a scope around the innermost one, not by the innermost one.
CanShadow(name) ==
    /\ Len(Stack(Top)) >= 2
    /\ ~HoldsName(Innermost(Stack(Top)), name)
    /\ LiveIn(Enclosing(Stack(Top)), name)

\* The insertion made a new local whose slot no live local of the frame has.
ShadowsWithNewSlot ==
    LET new == LastLocal(Innermost(StackAfter(Top)))
    IN /\ ret'.res = <<"CreateNew">>
       /\ Len(Innermost(StackAfter(Top)).locals) = Len(Innermost(Stack(Top)).locals) + 1
       /\ new.name = ret'.name
       /\ \A i \in 1..Len(Flat(Stack(Top))) : Flat(Stack(Top))[i].index # new.index

\* While the shadowing scope is innermost, the name resolves to its local.
InnerLocalWins ==
    \A name \in Names :
        Shadowed(name) =>
            resolve_local(toplevel, frames, name) =
                Some([stack |-> Top, scope |-> Len(Stack(Top)),
                      pos |-> NamePos(Innermost(Stack(Top)), name)])

\* After the shadowing scope is popped the name resolves to the outer local, with
\* the slot and mutability it had.
OuterLocalReturns ==
    \A name \in Names :
        Shadowed(name) =>
            LET outer == VisibleLocal(Enclosing(Stack(Top)), name)
                r == resolve_local(toplevel', frames', name)
            IN /\ IsSome(r)
               /\ Unwrap(r).stack = Top
               /\ Unwrap(r).scope < Len(Stack(Top))
               /\ LocalAfter(Unwrap(r)) = outer

IsPopScope == ret'.op = "pop_scope" /\ ~panicked' /\ Len(Stack(Top)) > 0

\* C5 as written: a name inserted in a nested scope while an outer scope of the
\* frame holds it gets a new local with a new slot; the name resolves to the inner
\* local while the nested scope is on the stack and to the outer local, unchanged,
\* once the nested scope is popped.
C5_Original ==
    /\ [][IsInsertLocal /\ CanShadow(ret'.name) => ShadowsWithNewSlot]_vars
    /\ []InnerLocalWins
    /\ [][IsPopScope => OuterLocalReturns]_vars

\* C5 amended: the same, the insertion creating the new local unless the last slot
\* the frame holds is the largest local index (and then it fails with InternalLimit
\* and the name keeps resolving to the outer local).
C5_Shadowing ==
    /\ [][IsInsertLocal /\ CanShadow(ret'.name) =>
            IF LastSlot(Stack(Top)) < LocalIndexMax
            THEN ShadowsWithNewSlot
            ELSE RefusesNew]_vars
    /\ []InnerLocalWins
    /\ [][IsPopScope => OuterLocalReturns]_vars

\* A mutable local has just been inserted over an immutable one of the same name
\* in the scope around it, and the name resolves to the new one.
C5_Witness ==
    /\ ret.op = "insert_local"
    /\ ~panicked
    /\ ret.res = <<"CreateNew">>
    /\ Top >= 1
    /\ Shadowed(ret.name)
    /\ LastLocal(Innermost(Stack(Top))).decl = "Mutable"
    /\ VisibleLocal(Enclosing(Stack(Top)), ret.name).decl = "Immutable"
    /\ LastLocal(Innermost(Stack(Top))).index # VisibleLocal(Enclosing(Stack(Top)), ret.name).index
    /\ resolve_local(toplevel, frames, ret.name) =
           Some([stack |-> Top, scope |-> 2, pos |-> Len(Innermost(Stack(Top)).locals)])

\* ------------------------------------------------------------------ C6

\* C6: resolve_local returns the local of the innermost scope of the current stack
\* (the top frame, the top level with no frame) that holds the name, and none when
\* no scope of that stack holds it, whatever the other stacks hold.
C6_ResolveLocal ==
    ret.op = "resolve_local" =>
        ret.res =
            IF LiveIn(Stack(Top), ret.name)
            THEN Some([stack |-> Top,
                       scope |-> InnermostHolder(Stack(Top), ret.name),
                       pos |-> NamePos(Stack(Top)[InnermostHolder(Stack(Top), ret.name)],
                                       ret.name)])
            ELSE None

\* None has been returned in a frame while an enclosing stack holds the name.
C6_Witness ==
    /\ ret.op = "resolve_local"
    /\ ret.res = None
    /\ Top >= 1
    /\ \E s \in 0..(Top - 1) : LiveIn(Stack(s), ret.name)

\* ------------------------------------------------------------------ C8

\* Loop accepts break and continue, Block accepts break, the other tags neither.
Accepts(tag, kind) == tag = "Loop" \/ (tag = "Block" /\ kind = "Break")

\* The scopes of the current stack that accept the request and, for a labeled
\* request, carry its label.
Candidates(target) ==
    {i \in 1..Len(Stack(Top)) :
        /\ Accepts(Stack(Top)[i].tag, target.kind)
        /\ (target.label = None \/ Stack(Top)[i].label = target.label)}

Innermost_of(S) == CHOOSE i \in S : \A h \in S : h <= i

\* C8: resolve_control_flow returns the innermost scope of the current stack whose
\* tag accepts the request and, for a labeled request, whose label is the one asked
\* for; the scopes that do not qualify are skipped; none when no scope qualifies.
C8_ResolveControlFlow ==
    ret.op = "resolve_control_flow" =>
        ret.res =
            IF Candidates(ret.target) = {} THEN None
            ELSE Some([stack |-> Top, scope |-> Innermost_of(Candidates(ret.target))])

\* A labeled break has been resolved to the outer of two scopes, past an inner
\* scope that accepts break but carries another label (or none).
C8_Witness ==
    /\ ret.op = "resolve_control_flow"
    /\ ret.target.kind = "Break"
    /\ ret.target.label # None
    /\ Len(Stack(Top)) = 2
    /\ ret.res = Some([stack |-> Top, scope |-> 1])
    /\ Accepts(Stack(Top)[2].tag, "Break")
    /\ Stack(Top)[2].label # ret.target.label

\* ------------------------------------------------------------------ C9

\* C9: the scope resolve_control_flow returns is a scope of the current top frame
\* (of the top level with no frame), and the result is none when no scope of the
\* current frame qualifies, whatever the enclosing stacks hold.
C9_NoCrossFrame ==
    ret.op = "resolve_control_flow" =>
        /\ IsSome(ret.res) =>
              /\ Unwrap(ret.res).stack = Top
              /\ Unwrap(ret.res).scope \in 1..Len(Stack(Top))
        /\ Candidates(ret.target) = {} => ret.res = None

\* None has been returned in a frame although a scope of an enclosing stack
\* accepts the request and matches its label.
C9_Witness ==
    /\ ret.op = "resolve_control_flow"
    /\ ret.res = None
    /\ Top >= 1
    /\ \E s \in 0..(Top - 1) : \E i \in 1..Len(Stack(s)) :
          /\ Accepts(Stack(s)[i].tag, ret.target.kind)
          /\ (ret.target.label = None \/ Stack(s)[i].label = ret.target.label)

\* ------------------------------------------------------------------ C10

\* Every call frame has a scope, and its outermost scope is the Function scope
\* that push_frame made.
FrameScopesOk ==
    \A k \in 1..Len(frames) :
        /\ Len(frames[k].scopes) >= 1
        /\ frames[k].scopes[1].tag = "Function"
        /\ frames[k].scopes[1].depth = 0
        /\ frames[k].scopes[1].label = None

\* The step is a pop_scope called when the current frame has one scope left.
PopsLastScope == ret'.op = "pop_scope" /\ Top > 0 /\ Len(frames[Top].scopes) = 1

ScopesIn(tl, fr, id) == IF id = 0 THEN tl ELSE fr[id].scopes

\* The places of all the locals of a tracker state: stack, scope, place in the scope.
\* A step leaves a local at its place for as long as the local lives.
LocalRefs(tl, fr) ==
    UNION {UNION {{[stack |-> s, scope |-> i, pos |-> j] :
                      j \in 1..Len(ScopesIn(tl, fr, s)[i].locals)} :
                  i \in 1..Len(ScopesIn(tl, fr, s))} :
           s \in 0..Len(fr)}

TheLocal(tl, fr, r) == ScopesIn(tl, fr, r.stack)[r.scope].locals[r.pos]

\* The step is a resolve_or_create_upval that adds, to the frame right above the
\* stack of the local at r, an upvalue that targets that local's slot.
CapturedNow(r) ==
    /\ IsResolveUpval
    /\ r.stack < Len(frames)
    /\ Len(frames') = Len(frames)
    /\ LET old == frames[r.stack + 1].upvalues
           new == frames'[r.stack + 1].upvalues
           local == TheLocal(toplevel, frames, r)
       IN /\ Len(new) = Len(old) + 1
          /\ new[Len(new)].target = <<"Local", local.index>>
          /\ new[Len(new)].name = local.name

\* C11: a local is created with its captured flag false; the flag of a living local
\* is true after a step exactly when it was true before or the step is a
\* resolve_or_create_upval creating a Local-targeted upvalue for that local in the
\* frame right above it (so no other local is flagged, and the flag is never
\* cleared: not by pop_frame of the capturing frame, not by a redeclaration).
C11_CapturedFlag ==
    [][/\ \A r \in LocalRefs(toplevel, frames) \cap LocalRefs(toplevel', frames') :
            TheLocal(toplevel', frames', r).captured
                <=> (TheLocal(toplevel, frames, r).captured \/ CapturedNow(r))
       /\ \A r \in LocalRefs(toplevel', frames') \ LocalRefs(toplevel, frames) :
            ~TheLocal(toplevel', frames', r).captured]_vars

\* A captured local of the top level has just been redeclared in place, after the
\* frame that captured it was popped, and is still flagged, next to a local of the
\* same scope that is not.
C11_Witness ==
    /\ ret.op = "insert_local"
    /\ ~panicked
    /\ ret.res[1] = "HideExisting"
    /\ Top = 0
    /\ Len(toplevel) = 1
    /\ Len(toplevel[1].locals) = 2
    /\ \E j \in 1..2 : /\ toplevel[1].locals[j].name = ret.name
                        /\ toplevel[1].locals[j].captured
                        /\ ~toplevel[1].locals[3 - j].captured

\* ------------------------------------------------------------------ C12

\* The innermost scope of the current stack stands where the scope that the last
\* pop_scope removed stood (same frame, same depth, pushed after that pop), and the
\* removed scope held captured locals.
SiblingOfRetired ==
    /\ IsSome(retired)
    /\ Len(Stack(Top)) = Unwrap(retired).depth + 1

\* The step is an insert_local that creates a local in such a sibling scope.
InsertsInSibling == IsInsertLocal /\ ret'.res = <<"CreateNew">> /\ SiblingOfRetired

\* C12 as written: a local created in the sibling scope never gets the slot of a
\* captured local of the removed scope.
C12_Original ==
    [][InsertsInSibling =>
        LastLocal(Innermost(StackAfter(Top))).index \notin Unwrap(retired).slots]_vars

\* C12 amended: the slots of a removed scope are given out again, captured or not: a
\* local created in the sibling scope gets the slot of a captured local of the
\* removed scope exactly when that slot follows the last slot the frame then holds.
C12_SlotsRecycled ==
    [][InsertsInSibling =>
        \A c \in Unwrap(retired).slots :
            (LastLocal(Innermost(StackAfter(Top))).index = c)
                <=> (c = LastSlot(Stack(Top)) + 1)]_vars

\* The first local of a sibling scope has just been given the slot of a captured
\* local of the scope removed before it.
C12_Witness ==
    /\ ret.op = "insert_local"
    /\ ~panicked
    /\ ret.res = <<"CreateNew">>
    /\ SiblingOfRetired
    /\ Len(Innermost(Stack(Top)).locals) = 1
    /\ Innermost(Stack(Top)).locals[1].index \in Unwrap(retired).slots
    /\ ~Innermost(Stack(Top)).locals[1].captured

\* ------------------------------------------------------------------ vocabulary of the code generator's properties
\* Written from the claims' words, without the operators of the model above.

\* The step is a call of push_stmt; Stmt is the statement it was given.
IsPushStmt == ret'.op = "push_stmt"
Stmt == ret'.stmt

IsFinish == ret'.op = "finish"

Bytes == program.bytecode.bytes
Consts == program.bytecode.consts

\* What the step appended to the chunk's bytes and to the debug symbols.
AddedBytes == SubSeq(Bytes', Len(Bytes) + 1, Len(Bytes'))
AddedSymbols == SubSeq(program'.symbols, Len(program.symbols) + 1, Len(program'.symbols))

\* The step only appended to the chunk's bytes, to the pool and to the symbols.
AppendOnly ==
    /\ Len(Bytes') >= Len(Bytes) /\ SubSeq(Bytes', 1, Len(Bytes)) = Bytes
    /\ Len(Consts') >= Len(Consts) /\ SubSeq(Consts', 1, Len(Consts)) = Consts
    /\ Len(program'.symbols) >= Len(program.symbols)
    /\ SubSeq(program'.symbols, 1, Len(program.symbols)) = program.symbols

IsOpcode(byte) == "op" \in DOMAIN byte

\* The number of instructions among some bytes: one per opcode byte.
InstrCount(bytes) == Cardinality({i \in 1..Len(bytes) : IsOpcode(bytes[i])})

\* The operand bytes an instruction carries after its opcode.
OperandBytes(opcode) ==
    CASE opcode = "LoadConst" -> 1 [] opcode = "LoadConst16" -> 2 [] OTHER -> 0

\* Instructions as the claims speak of them: a load of a constant, or an operator.
Load(value) == [load |-> value]
Op(name) == [op |-> name]

\* The index a load instruction's operand bytes stand for.
NarrowIndex(b) == b.u8
WideIndex(lo, hi) == lo.u8 + 256 * hi.u8

\* The instructions some bytes encode, the loads given as loads of the constant
\* their index names in the pool.
RECURSIVE Decode(_, _)
Decode(bytes, consts) ==
    IF Len(bytes) = 0 THEN <<>>
    ELSE LET opcode == bytes[1].op
             rest == SubSeq(bytes, 2 + OperandBytes(opcode), Len(bytes))
         IN CASE opcode = "LoadConst" ->
                    <<Load(consts[NarrowIndex(bytes[2]) + 1])>> \o Decode(rest, consts)
              [] opcode = "LoadConst16" ->
                    <<Load(consts[WideIndex(bytes[2], bytes[3]) + 1])>> \o Decode(rest, consts)
              [] OTHER -> <<Op(opcode)>> \o Decode(rest, consts)

\* The constant a literal atom stands for.
LiteralValue(atom) ==
    CASE atom.kind = "IntegerLiteral" -> [int |-> atom.value]
      [] atom.kind = "FloatLiteral"   -> [float |-> atom.value]
      [] atom.kind = "StringLiteral"  -> [str |-> atom.value]

IsConstLiteral(atom) == atom.kind \in {"IntegerLiteral", "FloatLiteral", "StringLiteral"}
IsPlainLiteral(atom) == atom.kind \in {"Nil", "EmptyTuple", "BooleanLiteral"}

\* The instruction of nil, of the empty tuple, of true and of false.
PlainOp(atom) ==
    CASE atom.kind = "Nil"        -> "Nil"
      [] atom.kind = "EmptyTuple" -> "Empty"
      [] OTHER                    -> IF atom.value THEN "True" ELSE "False"

\* The instruction of a binary operator.
BinaryInstr(op) ==
    CASE op.cat = "Shift" -> (IF op.op = "Left" THEN "Shl" ELSE "Shr")
      [] OTHER            -> op.op

\* The expression is built from literal atoms, groups, unary operators and binary
\* arithmetic, bitwise, shift and comparison operators.
RECURSIVE Lowered(_)
Lowered(expr) ==
    CASE expr.kind = "Atom" ->
            \/ IsConstLiteral(expr.atom)
            \/ IsPlainLiteral(expr.atom)
            \/ expr.atom.kind = "Group" /\ Lowered(expr.atom.expr)
      [] expr.kind = "UnaryOp" -> Lowered(expr.expr)
      [] expr.kind = "BinaryOp" ->
            /\ expr.op.cat \in {"Arithmetic", "Bitwise", "Shift", "Comparison"}
            /\ Lowered(expr.lhs)
            /\ Lowered(expr.rhs)
      [] OTHER -> FALSE

\* The post-order code of such an expression.
RECURSIVE Code(_)
Code(expr) ==
    CASE expr.kind = "Atom" ->
            (IF IsConstLiteral(expr.atom) THEN <<Load(LiteralValue(expr.atom))>>
             ELSE IF IsPlainLiteral(expr.atom) THEN <<Op(PlainOp(expr.atom))>>
             ELSE Code(expr.atom.expr))
      [] expr.kind = "UnaryOp" -> Code(expr.expr) \o <<Op(expr.op)>>
      [] OTHER -> Code(expr.lhs) \o Code(expr.rhs) \o <<Op(BinaryInstr(expr.op))>>

Held(consts) == {consts[i] : i \in 1..Len(consts)}

\* The place of a constant in the pool, counted from 0.
IndexOf(consts, value) == (CHOOSE i \in 1..Len(consts) : consts[i] = value) - 1

\* The pool cannot take one more constant.
PoolFull(consts) == Len(consts) = ConstIDMax + 1

\* The instructions of `code` up to its first load of a constant that the pool
\* does not hold and cannot take; all of `code` when there is no such load.
RECURSIVE Emitted(_, _)
Emitted(code, consts) ==
    IF Len(code) = 0 THEN <<>>
    ELSE IF "load" \in DOMAIN code[1]
    THEN IF code[1].load \in Held(consts)
         THEN <<code[1]>> \o Emitted(Tail(code), consts)
         ELSE IF PoolFull(consts) THEN <<>>
         ELSE <<code[1]>> \o Emitted(Tail(code), Append(consts, code[1].load))
    ELSE <<code[1]>> \o Emitted(Tail(code), consts)

\* A statement of lowered forms fails: one of its constants cannot be added.
Fails(stmt) == Len(Emitted(Code(stmt.variant.expr), Consts)) < Len(Code(stmt.variant.expr))

IsLoweredStmt(stmt) == stmt.variant.kind = "Expression" /\ Lowered(stmt.variant.expr)

LimitError(stmt) == [kind |-> "InternalLimit", symbol |-> <<stmt.symbol>>]

\* ------------------------------------------------------------------ C13

\* What push_stmt does with a statement of lowered forms: a statement that fails
\* adds its one error to the end of the list, one that succeeds adds none and its
\* code is appended, whatever the list already holds.
StmtOutcome ==
    /\ AppendOnly
    /\ IF Fails(Stmt)
       THEN errors' = Append(errors, LimitError(Stmt))
       ELSE /\ errors' = errors
            /\ Decode(AddedBytes, Consts') = Code(Stmt.variant.expr)

\* The errors are those of distinct statements, in statement order.
ErrorsInOrder ==
    /\ \A i \in 1..Len(errors) : errors[i].symbol[1] \in 1..position
    /\ \A i \in 1..(Len(errors) - 1) : errors[i].symbol[1] < errors[i + 1].symbol[1]

\* finish hands out the program when the list is empty and the whole list otherwise.
FinishOutcome ==
    ret'.res = IF Len(errors) = 0 THEN <<"Ok", program>> ELSE <<"Err", errors>>

\* C13 as written: every push_stmt returns, whatever the statement, having added
\* one error when the statement failed and none when it succeeded; finish returns
\* Ok(program) exactly when no statement failed and the whole error list otherwise.
C13_Original ==
    /\ [][IsPushStmt => ~panicked' /\ (IsLoweredStmt(Stmt) => StmtOutcome)]_vars
    /\ []ErrorsInOrder
    /\ [][IsFinish => FinishOutcome]_vars

\* C13 amended: that holds of the statements of lowered forms (expression
\* statements built from literals, groups, unary operators and the binary operators
\* other than the logical ones); any other statement aborts the compilation, unless
\* a constant that comes before its unlowered part cannot be added.
C13_FaultIsolation ==
    /\ [][IsPushStmt =>
            IF IsLoweredStmt(Stmt)
            THEN ~panicked' /\ StmtOutcome
            ELSE panicked' \/ errors' = Append(errors, LimitError(Stmt))]_vars
    /\ []ErrorsInOrder
    /\ [][IsFinish => FinishOutcome]_vars

\* finish has returned the errors of two statements that failed on either side of
\* a statement that succeeded.
C13_Witness ==
    /\ ret.op = "finish"
    /\ ret.res[1] = "Err"
    /\ ret.res[2] = errors
    /\ Len(errors) = 2
    /\ errors[2].symbol[1] = errors[1].symbol[1] + 2
    /\ Len(program.symbols) = errors[1].symbol[1]

\* ------------------------------------------------------------------ C14

\* The byte at place i is the opcode `name`.
OpAt(bytes, i, name) == IsOpcode(bytes[i]) /\ bytes[i].op = name

LoadsOf(bytes, name) == Cardinality({i \in 1..Len(bytes) : OpAt(bytes, i, name)})

\* C14: the debug-symbol table has one entry per instruction emitted, however many
\* bytes the instructions take (one after the opcode for a LoadConst, two for a
\* LoadConst16, none for the others), and the entries are in emission order: a
\* push_stmt appends the statement's symbol once per instruction it emits.
C14_SymbolPerInstruction ==
    /\ [](/\ Len(program.symbols) = InstrCount(Bytes)
          /\ Len(Bytes) = InstrCount(Bytes) + LoadsOf(Bytes, "LoadConst")
                              + 2 * LoadsOf(Bytes, "LoadConst16"))
    /\ [][IsPushStmt =>
            /\ AppendOnly
            /\ AddedSymbols = [i \in 1..InstrCount(AddedBytes) |-> Stmt.symbol]]_vars

\* The chunk holds instructions of the three widths, and fewer debug symbols than
\* bytes: one per instruction.
C14_Witness ==
    /\ \E i \in 1..Len(Bytes) : OpAt(Bytes, i, "LoadConst")
    /\ \E i \in 1..Len(Bytes) : OpAt(Bytes, i, "LoadConst16")
    /\ \E i \in 1..Len(Bytes) : OpAt(Bytes, i, "Add")
    /\ Len(program.symbols) = InstrCount(Bytes)
    /\ Len(program.symbols) < Len(Bytes)

\* ------------------------------------------------------------------ C15

\* C15 as written: the instructions a lowered expression adds are its post-order
\* code (left operand, right operand, then the one operator instruction; operand,
\* then the one operator instruction; nothing for a group), with one debug symbol
\* each.
C15_Original ==
    [][IsPushStmt /\ IsLoweredStmt(Stmt) =>
        /\ Decode(AddedBytes, Consts') = Code(Stmt.variant.expr)
        /\ Len(AddedSymbols) = Len(Code(Stmt.variant.expr))]_vars

\* C15 amended: that holds unless a literal's constant cannot be added to the
\* pool; the instructions added are then the post-order code up to, and without,
\* the load of that constant.
C15_PostOrder ==
    [][IsPushStmt /\ IsLoweredStmt(Stmt) =>
        /\ Decode(AddedBytes, Consts') = Emitted(Code(Stmt.variant.expr), Consts)
        /\ Len(AddedSymbols) = Len(Emitted(Code(Stmt.variant.expr), Consts))]_vars

\* 1 + 2 * 3 has been compiled by a new generator: load 1, load 2, load 3, Mul,
\* Add, and five debug symbols.
C15_Witness ==
    /\ ret.op = "push_stmt"
    /\ position = 1
    /\ ret.stmt.variant =
          [kind |-> "Expression",
           expr |-> [kind |-> "BinaryOp", op |-> [cat |-> "Arithmetic", op |-> "Add"],
                     lhs |-> [kind |-> "Atom", atom |-> [kind |-> "IntegerLiteral", value |-> 1]],
                     rhs |-> [kind |-> "BinaryOp", op |-> [cat |-> "Arithmetic", op |-> "Mul"],
                              lhs |-> [kind |-> "Atom", atom |-> [kind |-> "IntegerLiteral", value |-> 2]],
                              rhs |-> [kind |-> "Atom", atom |-> [kind |-> "IntegerLiteral", value |-> 3]]]]]
    /\ Decode(Bytes, Consts) =
          <<[load |-> [int |-> 1]], [load |-> [int |-> 2]], [load |-> [int |-> 3]],
            [op |-> "Mul"], [op |-> "Add"]>>
    /\ Len(program.symbols) = 5

\* ------------------------------------------------------------------ C16

\* The statement is one literal that stands for a constant: compiling it is one
\* call of emit_const.
IsConstStmt(stmt) ==
    /\ stmt.variant.kind = "Expression"
    /\ stmt.variant.expr.kind = "Atom"
    /\ IsConstLiteral(stmt.variant.expr.atom)

IsOperand(byte) == ~IsOpcode(byte) /\ byte.u8 \in 0..255

\* The bytes are the one-byte load of the index.
NarrowLoad(bytes, index) ==
    /\ Len(bytes) = 2
    /\ OpAt(bytes, 1, "LoadConst")
    /\ IsOperand(bytes[2])
    /\ NarrowIndex(bytes[2]) = index

\* The bytes are the two-byte load of the index, the low byte first.
WideLoad(bytes, index) ==
    /\ Len(bytes) = 3
    /\ OpAt(bytes, 1, "LoadConst16")
    /\ IsOperand(bytes[2])
    /\ IsOperand(bytes[3])
    /\ WideIndex(bytes[2], bytes[3]) = index
    /\ bytes[2].u8 = index % 256

\* C16: when the pool gives emit_const an index for the constant, the load emitted
\* is the one-byte LoadConst exactly when the index is at most 255 and the two-byte
\* little-endian LoadConst16 otherwise, and its operand decodes to the index; so
\* of the loads of n distinct constants the first 256 are narrow and the rest wide.
C16_LoadWidth ==
    /\ [][IsPushStmt /\ IsConstStmt(Stmt) /\ ~Fails(Stmt) =>
            LET index == IndexOf(Consts', LiteralValue(Stmt.variant.expr.atom))
            IN IF index <= 255
               THEN NarrowLoad(AddedBytes, index)
               ELSE WideLoad(AddedBytes, index)]_vars
    /\ [](extra = 0 =>
            /\ LoadsOf(Bytes, "LoadConst") = (IF position <= 256 THEN position ELSE 256)
            /\ LoadsOf(Bytes, "LoadConst16") = (IF position <= 256 THEN 0 ELSE position - 256))

\* 257 distinct constants have been loaded: 256 narrow loads, then one wide load
\* whose bytes 0, 1 stand for the index 256.
C16_Witness ==
    /\ extra = 0
    /\ position = 257
    /\ Len(Consts) = 257
    /\ LoadsOf(Bytes, "LoadConst") = 256
    /\ WideLoad(SubSeq(Bytes, Len(Bytes) - 2, Len(Bytes)), 256)
    /\ Bytes[Len(Bytes) - 1].u8 = 0
    /\ Bytes[Len(Bytes)].u8 = 1

\* ------------------------------------------------------------------ C17

\* The statement is one literal atom.
IsLiteralStmt(stmt) ==
    /\ stmt.variant.kind = "Expression"
    /\ stmt.variant.expr.kind = "Atom"
    /\ IsConstLiteral(stmt.variant.expr.atom) \/ IsPlainLiteral(stmt.variant.expr.atom)

\* nil, the empty tuple, true or false: one instruction without operand, and the
\* pool is left as it was.
PlainLiteralOutcome(atom) ==
    /\ AddedBytes = <<[op |-> PlainOp(atom)]>>
    /\ Consts' = Consts
    /\ errors' = errors

\* An integer, a float or a string: the pool holds the value afterwards, having
\* grown by that value at most, and one load of its index is emitted.
ConstLiteralOutcome(atom) ==
    /\ LiteralValue(atom) \in Held(Consts')
    /\ Consts' = (IF LiteralValue(atom) \in Held(Consts) THEN Consts
                  ELSE Append(Consts, LiteralValue(atom)))
    /\ \/ NarrowLoad(AddedBytes, IndexOf(Consts', LiteralValue(atom)))
       \/ WideLoad(AddedBytes, IndexOf(Consts', LiteralValue(atom)))
    /\ errors' = errors

\* The pool is full and does not hold the literal's value.
NoRoomFor(atom) == PoolFull(Consts) /\ LiteralValue(atom) \notin Held(Consts)

\* C17 as written.
C17_Original ==
    [][IsPushStmt /\ IsLiteralStmt(Stmt) =>
        LET atom == Stmt.variant.expr.atom
        IN IF IsPlainLiteral(atom)
           THEN PlainLiteralOutcome(atom)
           ELSE ConstLiteralOutcome(atom)]_vars

\* C17 amended: an integer, float or string literal is pushed and loaded unless the
\* pool is full and does not hold its value; the compilation of the literal then
\* fails with InternalLimit, the pool is unchanged and nothing is emitted.
C17_LiteralAtoms ==
    [][IsPushStmt /\ IsLiteralStmt(Stmt) =>
        LET atom == Stmt.variant.expr.atom
        IN IF IsPlainLiteral(atom)
           THEN PlainLiteralOutcome(atom)
           ELSE IF NoRoomFor(atom)
           THEN /\ errors' = Append(errors, LimitError(Stmt))
                /\ program' = program
           ELSE ConstLiteralOutcome(atom)]_vars

\* A string literal has just been compiled by a generator that held one constant:
\* its value is the pool's second constant and the load of index 1 was emitted.
C17_Witness ==
    /\ ret.op = "push_stmt"
    /\ ~panicked
    /\ IsLiteralStmt(ret.stmt)
    /\ ret.stmt.variant.expr.atom.kind = "StringLiteral"
    /\ Consts = <<[int |-> 0], [str |-> ret.stmt.variant.expr.atom.value]>>
    /\ NarrowLoad(SubSeq(Bytes, Len(Bytes) - 1, Len(Bytes)), 1)
    /\ Len(errors) = 0

\* ------------------------------------------------------------------ vocabulary of the operator properties
\* Written from the claims' words, without the operators of the model above.

IsInteger(value) == "int" \in DOMAIN value
IsFloat(value) == "float" \in DOMAIN value
IsNumeric(value) == IsInteger(value) \/ IsFloat(value)
IsBool(value) == "bool" \in DOMAIN value

\* The last call was one of the named operators.
Called(names) == ret.op \in names

Representable(x) == -(2 ^ (IntBits - 1)) <= x /\ x <= 2 ^ (IntBits - 1) - 1
Largest == 2 ^ (IntBits - 1) - 1
Smallest == -(2 ^ (IntBits - 1))

\* The result of the operation on the mathematical integers.
Exact(name, a, b) ==
    CASE name = "eval_add" -> a + b
      [] name = "eval_sub" -> a - b
      [] name = "eval_mul" -> a * b

\* What the last call gave to its caller.
ReturnedValue(value) == ret.res = [ok |-> <<value>>]
ReturnedSome == "ok" \in DOMAIN ret.res /\ ret.res.ok # <<>>
ReturnedNone == ret.res = [ok |-> <<>>]
ReturnedError(kind) == ret.res = [err |-> kind]
ReturnedErr == "err" \in DOMAIN ret.res
Aborts == "panic" \in DOMAIN ret.res

\* C18: eval_add, eval_sub and eval_mul of two integers return Integer(exact
\* result) when the exact result is representable in the integer width, and the
\* OverflowError otherwise: never a wrapped value.
C18_OverflowPolicy ==
    Called({"eval_add", "eval_sub", "eval_mul"}) /\ IsInteger(ret.lhs) /\ IsInteger(ret.rhs) =>
        LET exact == Exact(ret.op, ret.lhs.int, ret.rhs.int)
        IN IF Representable(exact) THEN ReturnedValue([int |-> exact])
           ELSE ReturnedError("OverflowError")

\* eval_add on the two largest integers has returned the OverflowError.
C18_Witness ==
    /\ Called({"eval_add"})
    /\ ret.lhs = [int |-> Largest]
    /\ ret.rhs = [int |-> Largest]
    /\ ReturnedError("OverflowError")

ArithmeticNames == {"eval_mul", "eval_div", "eval_mod", "eval_add", "eval_sub"}
ComparisonNames == {"eval_lt", "eval_le"}

\* C19: the five arithmetic operators and eval_lt, eval_le take the integer
\* path exactly when both operands are Integer, the float path exactly when both
\* are Integer or Float and at least one is Float, and return none exactly when
\* an operand is neither; a value of an arithmetic operator is an Integer on the
\* integer path and a Float on the float path.
C19_CoercionDispatch ==
    Called(ArithmeticNames \cup ComparisonNames) =>
        /\ ret.arm = "int" <=> IsInteger(ret.lhs) /\ IsInteger(ret.rhs)
        /\ ret.arm = "float" <=>
              /\ IsNumeric(ret.lhs) /\ IsNumeric(ret.rhs)
              /\ IsFloat(ret.lhs) \/ IsFloat(ret.rhs)
        /\ ReturnedNone <=> ~IsNumeric(ret.lhs) \/ ~IsNumeric(ret.rhs)
        /\ Called(ArithmeticNames) /\ ReturnedSome =>
              /\ ret.arm = "int" => IsInteger(ret.res.ok[1])
              /\ ret.arm = "float" => IsFloat(ret.res.ok[1])
        /\ Called(ArithmeticNames) /\ ret.arm = "float" => ReturnedSome
        /\ Called(ComparisonNames) /\ ret.arm \in {"int", "float"} =>
              ReturnedSome /\ ret.res.ok[1] \in BOOLEAN

\* eval_add of an Integer and a Float has taken the float path and returned a
\* Float.
C19_Witness ==
    /\ Called({"eval_add"})
    /\ IsInteger(ret.lhs) /\ IsFloat(ret.rhs)
    /\ ret.arm = "float"
    /\ ReturnedSome /\ IsFloat(ret.res.ok[1])

ShiftNames == {"eval_shl", "eval_shr"}

\* The operands that the claim about panics quantifies over.
IntegerOperands ==
    \/ Called(ArithmeticNames) /\ IsInteger(ret.lhs) /\ IsInteger(ret.rhs)
    \/ /\ Called(ShiftNames)
       /\ IsInteger(ret.lhs) \/ IsBool(ret.lhs)
       /\ IsInteger(ret.rhs) \/ IsBool(ret.rhs)

\* C20: for Integer operands (Bool or Integer operands for the shifts) each of
\* eval_mul, eval_div, eval_mod, eval_add, eval_sub, eval_shl and eval_shr
\* returns a value, none or a recoverable error and never aborts, a zero
\* divisor, the minimum integer divided or reduced by -1 and every shift count
\* that is not negative included.
C20_NoPanic ==
    IntegerOperands => ~Aborts /\ (ReturnedSome \/ ReturnedNone \/ ReturnedErr)

\* eval_div of an integer by zero has aborted.
C20_Witness ==
    /\ Called({"eval_div"})
    /\ ret.lhs = [int |-> 1]
    /\ ret.rhs = [int |-> 0]
    /\ Aborts
    /\ panicked

\* The calls of C20 that abort are the divisions and remainders by zero, the
\* remainder of the minimum integer by -1 and the shifts by an Integer count
\* above u32::MAX; the minimum integer divided by -1 is an OverflowError.
C20_AbortCases ==
    IntegerOperands =>
        /\ Aborts <=>
              \/ Called({"eval_div", "eval_mod"}) /\ ret.rhs.int = 0
              \/ Called({"eval_mod"}) /\ ret.lhs.int = Smallest /\ ret.rhs.int = -1
              \/ Called(ShiftNames) /\ IsInteger(ret.rhs) /\ ret.rhs.int > U32Max
        /\ Called({"eval_div"}) /\ ret.lhs.int = Smallest /\ ret.rhs.int = -1 =>
              ReturnedError("OverflowError")

\* The original statement of C21: for Integer operands neither eval_div nor
\* eval_mod returns the OverflowError.
C21_Original ==
    Called({"eval_div", "eval_mod"}) /\ IsInteger(ret.lhs) /\ IsInteger(ret.rhs) =>
        ~ReturnedError("OverflowError")

\* C21: for Integer operands eval_div returns the OverflowError exactly for the
\* minimum integer divided by -1 and the truncated quotient for every other
\* divisor that is not zero; eval_mod never returns the OverflowError (it
\* aborts on the minimum integer reduced by -1).
C21_DivisionChecked ==
    Called({"eval_div", "eval_mod"}) /\ IsInteger(ret.lhs) /\ IsInteger(ret.rhs) =>
        LET a == ret.lhs.int
            b == ret.rhs.int
            overflows == a = Smallest /\ b = -1
        IN /\ Called({"eval_div"}) => (ReturnedError("OverflowError") <=> overflows)
           /\ Called({"eval_div"}) /\ b # 0 /\ ~overflows =>
                 /\ ReturnedSome /\ IsInteger(ret.res.ok[1])
                 /\ LET q == ret.res.ok[1].int
                        r == a - b * q
                    IN (r = 0 \/ (r < 0 <=> a < 0)) /\ (IF r < 0 THEN -r ELSE r) < (IF b < 0 THEN -b ELSE b)
           /\ Called({"eval_mod"}) => ~ReturnedErr
           /\ Called({"eval_mod"}) /\ overflows => Aborts

\* eval_div of the minimum integer by -1 has returned the OverflowError.
C21_Witness ==
    /\ Called({"eval_div"})
    /\ ret.lhs = [int |-> Smallest]
    /\ ret.rhs = [int |-> -1]
    /\ ReturnedError("OverflowError")

IsBitwisePrimitive(value) == IsBool(value) \/ IsInteger(value)

\* C22: eval_shl and eval_shr return the NegativeShiftCount error for every
\* negative Integer shift count and every left operand that is a Bool or an
\* Integer, also when the size of the count is the width or more.
C22_NegativeShiftCount ==
    Called(ShiftNames) /\ IsBitwisePrimitive(ret.lhs) /\ IsInteger(ret.rhs) /\ ret.rhs.int < 0 =>
        ReturnedError("NegativeShiftCount")

\* eval_shl of an Integer by the minimum integer, whose size is beyond the
\* width, has returned NegativeShiftCount.
C22_Witness ==
    /\ Called({"eval_shl"})
    /\ ret.lhs = [int |-> 1]
    /\ ret.rhs = [int |-> Smallest]
    /\ -Smallest >= IntBits
    /\ ReturnedError("NegativeShiftCount")

\* What the operator of the last call gives for its left operand and another
\* count.
ShiftedBy(count) ==
    IF ret.op = "eval_shl" THEN eval_shl(ret.lhs, count) ELSE eval_shr(ret.lhs, count)

\* C23: for a left operand that is a Bool or an Integer, eval_shl and eval_shr
\* by true give what the shift by Integer(1) gives, and by false they return
\* the left operand itself, variant and value unchanged.
C23_BooleanShiftCount ==
    Called(ShiftNames) /\ IsBitwisePrimitive(ret.lhs) =>
        /\ ret.rhs = [bool |-> TRUE] => ret.res = ShiftedBy([int |-> 1])
        /\ ret.rhs = [bool |-> FALSE] => ReturnedValue(ret.lhs)

\* eval_shl of BoolTrue by false has returned BoolTrue.
C23_Witness ==
    /\ Called({"eval_shl"})
    /\ ret.lhs = [bool |-> TRUE]
    /\ ret.rhs = [bool |-> FALSE]
    /\ ReturnedValue([bool |-> TRUE])

BitwiseNames == {"eval_and", "eval_xor", "eval_or"}

\* The original statement of C24: eval_and, eval_xor and eval_or return none
\* whenever one operand is a Bool and the other an Integer, a Bool for two
\* Bools and an Integer for two Integers.
C24_Original ==
    Called(BitwiseNames) =>
        /\ (IsBool(ret.lhs) /\ IsInteger(ret.rhs)) \/ (IsInteger(ret.lhs) /\ IsBool(ret.rhs)) =>
              ReturnedNone
        /\ IsBool(ret.lhs) /\ IsBool(ret.rhs) => ReturnedSome /\ IsBool(ret.res.ok[1])
        /\ IsInteger(ret.lhs) /\ IsInteger(ret.rhs) => ReturnedSome /\ IsInteger(ret.res.ok[1])

\* The logical operation that an operator stands for on two Bools.
Logical(name, a, b) ==
    CASE name = "eval_and" -> a /\ b
      [] name = "eval_xor" -> a # b
      [] name = "eval_or" -> a \/ b

\* C24: eval_and, eval_xor and eval_or return the Bool of the logical operation
\* for two Bools, an Integer for two Integers and also an Integer when one
\* operand is a Bool and the other an Integer; they return none exactly when an
\* operand is neither a Bool nor an Integer.
C24_BitwiseDispatch ==
    Called(BitwiseNames) =>
        /\ IsBool(ret.lhs) /\ IsBool(ret.rhs) =>
              ReturnedValue([bool |-> Logical(ret.op, ret.lhs.bool, ret.rhs.bool)])
        /\ IsBitwisePrimitive(ret.lhs) /\ IsBitwisePrimitive(ret.rhs)
               /\ (IsInteger(ret.lhs) \/ IsInteger(ret.rhs)) =>
              ReturnedSome /\ IsInteger(ret.res.ok[1])
        /\ ReturnedNone <=> ~IsBitwisePrimitive(ret.lhs) \/ ~IsBitwisePrimitive(ret.rhs)
        /\ IsInteger(ret.lhs) /\ ret.lhs = ret.rhs /\ ret.op # "eval_xor" => ReturnedValue(ret.lhs)
        /\ IsInteger(ret.lhs) /\ ret.lhs = ret.rhs /\ ret.op = "eval_xor" =>
              ReturnedValue([int |-> 0])

\* eval_and of a Bool and an Integer has returned an Integer.
C24_Witness ==
    /\ Called({"eval_and"})
    /\ ret.lhs = [bool |-> TRUE]
    /\ ret.rhs = [int |-> 1]
    /\ ReturnedSome /\ IsInteger(ret.res.ok[1])

IsNil(value) == "nil" \in DOMAIN value
IsEmptyTuple(value) == "empty" \in DOMAIN value

\* What the last call, of eval_eq or of eval_ne, says about the equality of its
\* operands.
SaysEqual == IF ret.op = "eval_eq" THEN ret.res.ok ELSE ~ret.res.ok

\* C25: eval_eq and eval_ne always return a bool; the operands are unequal
\* whenever one is Nil, Nil and Nil included; EmptyTuple equals EmptyTuple only;
\* two Bools are equal iff they are the same truth value; two Integers are
\* equal iff their values are; a Bool never equals an Integer; and eval_ne is
\* the negation of eval_eq.
C25_EqualityPolicy ==
    Called({"eval_eq", "eval_ne"}) =>
        /\ "ok" \in DOMAIN ret.res /\ ret.res.ok \in BOOLEAN
        /\ IsNil(ret.lhs) \/ IsNil(ret.rhs) => ~SaysEqual
        /\ IsEmptyTuple(ret.lhs) \/ IsEmptyTuple(ret.rhs) =>
              (SaysEqual <=> IsEmptyTuple(ret.lhs) /\ IsEmptyTuple(ret.rhs))
        /\ IsBool(ret.lhs) /\ IsBool(ret.rhs) => (SaysEqual <=> ret.lhs.bool = ret.rhs.bool)
        /\ IsInteger(ret.lhs) /\ IsInteger(ret.rhs) => (SaysEqual <=> ret.lhs.int = ret.rhs.int)
        /\ (IsBool(ret.lhs) /\ IsInteger(ret.rhs)) \/ (IsInteger(ret.lhs) /\ IsBool(ret.rhs)) =>
              ~SaysEqual
        /\ Called({"eval_ne"}) => ret.res.ok = ~eval_eq(ret.lhs, ret.rhs)

\* eval_ne of Nil and Nil has returned true.
C25_Witness ==
    /\ Called({"eval_ne"})
    /\ IsNil(ret.lhs) /\ IsNil(ret.rhs)
    /\ ret.res = [ok |-> TRUE]

\* C26: eval_ge returns none exactly when eval_lt does and the negation of what
\* eval_lt returns otherwise; eval_gt likewise with eval_le; for two Integers
\* eval_ge(a, b) is a >= b and eval_gt(a, b) is a > b.
C26_DerivedComparisons ==
    Called({"eval_ge", "eval_gt"}) =>
        LET base == IF ret.op = "eval_ge" THEN eval_lt(ret.lhs, ret.rhs)
                    ELSE eval_le(ret.lhs, ret.rhs)
        IN /\ ReturnedNone <=> base = <<>>
           /\ base # <<>> => ReturnedValue(~base[1])
           /\ IsInteger(ret.lhs) /\ IsInteger(ret.rhs) =>
                 ReturnedValue(IF ret.op = "eval_ge" THEN ret.lhs.int >= ret.rhs.int
                               ELSE ret.lhs.int > ret.rhs.int)

\* eval_ge of two equal Integers has returned true.
C26_Witness ==
    /\ Called({"eval_ge"})
    /\ ret.lhs = [int |-> 1]
    /\ ret.rhs = [int |-> 1]
    /\ ReturnedValue(TRUE)

\* ------------------------------------------------------------------ vocabulary of the collector properties

HandleNames == {"deref", "as_ref", "borrow", "mark_trace", "ptr_eq"}

\* The last step was a handle operation that read its slot, or one that was
\* attempted while the flag was cleared.
SlotRead == Called(HandleNames) /\ ret.read
AttemptedInSweep == Called(HandleNames) /\ ~ret.safe

\* C27: every handle operation that reads the slot (deref, as_ref, borrow,
\* mark_trace, ptr_eq) checks the deref-safe flag first: an operation attempted
\* while the flag is cleared fails instead of reading the slot, and no slot is
\* read while the flag is cleared.
C27_SweepGate ==
    /\ SlotRead => ret.safe
    /\ AttemptedInSweep => ~ret.read /\ panicked

\* In a build without debug assertions a handle was dereferenced during the
\* sweep, and the slot it read had been freed.
C27_Witness ==
    /\ ~debug_assertions
    /\ Called({"deref"})
    /\ pc = "sweeping" /\ ~ret.safe
    /\ ret.read /\ ret.freed

\* The gate of C27 is there in the builds that check debug assertions, and in
\* no other build.
C27_GateInCheckedBuilds ==
    /\ debug_assertions => C27_SweepGate
    /\ ~debug_assertions /\ Called(HandleNames) => ret.read

\* The last step was an attempt to borrow the collector state.
BorrowAttempt == Called({"borrow_mut"})

\* C28: GC::new holds the collector state alone from its borrow to its return
\* and holds nothing after it; an allocation attempted while the collector
\* state is held, by an allocation or by a cycle, does not proceed; the
\* collector state never has two holders.
C28_MutualExclusion ==
    /\ Len(borrows) <= 1
    /\ pc = "allocating" <=> borrows = <<"new">>
    /\ pc \in {"tracing", "sweeping"} <=> borrows = <<"cycle">>
    /\ pc = "idle" <=> borrows = <<>>
    /\ BorrowAttempt /\ ret.held # <<>> => panicked /\ borrows = ret.held
    /\ BorrowAttempt /\ ret.held = <<>> => ~panicked /\ borrows = <<ret.by>>
    /\ Called({"GC::new"}) => borrows = <<>> /\ ret.slot \in heap

\* An allocation attempted during the sweep of a cycle has panicked, and the
\* cycle is still the only holder.
C28_Witness ==
    /\ BorrowAttempt
    /\ ret.by = "new"
    /\ ret.held = <<"cycle">>
    /\ pc = "sweeping"
    /\ panicked
    /\ borrows = <<"cycle">>

\* ------------------------------------------------------------------ C29

\* The slots of the locals of a scope stack, in declaration order, are within
\* the local-index type and grow.
SlotsGrow(scopes) ==
    \A j \in 1..Len(Flat(scopes)) :
        /\ Flat(scopes)[j].index \in 0..LocalIndexMax
        /\ j > 1 => Flat(scopes)[j - 1].index < Flat(scopes)[j].index

\* C29: insert_local of a name that the innermost scope does not hold, when the
\* last slot assigned in the frame is the largest value of the local-index type,
\* returns InternalLimit, adds no local and changes no scope; a slot never wraps
\* around to a smaller value.
C29_LocalLimit ==
    /\ [](\A id \in 0..Top : SlotsGrow(Stack(id)))
    /\ [][IsInsertLocal /\ ~HoldsName(Innermost(Stack(Top)), ret'.name)
              /\ LastSlot(Stack(Top)) = LocalIndexMax =>
            /\ ret'.res = <<"InternalLimit">>
            /\ toplevel' = toplevel
            /\ frames' = frames]_vars

\* insert_local has returned InternalLimit in a call frame whose last local
\* holds the largest slot.
C29_Witness ==
    /\ ret.op = "insert_local"
    /\ ~panicked
    /\ ret.res = <<"InternalLimit">>
    /\ Top >= 1
    /\ LastSlot(Stack(Top)) = LocalIndexMax
    /\ ~HoldsName(Innermost(Stack(Top)), ret.name)

\* ------------------------------------------------------------------ C30

\* The stacks below the top frame that bind the name, as a local or as an
\* upvalue of their frame.
Binders(name) ==
    {s \in 0..(Top - 1) : LiveIn(Stack(s), name) \/ (s > 0 /\ HasUpval(frames[s], name))}

\* The frames that need a new upvalue for the name: those above the nearest
\* stack that binds it.
CaptureChain(name) ==
    LET nearest == CHOOSE s \in Binders(name) : \A other \in Binders(name) : other <= s
    IN (nearest + 1)..Top

\* The frames whose number of upvalues is not a value of the upvalue-index type.
FullFrames == {f \in 1..Top : Len(frames[f].upvalues) > UpvalueIndexMax}

\* C30: resolve_or_create_upval returns InternalLimit whenever a frame on the
\* capture chain needs a new upvalue and the number of upvalues it holds is not
\* representable in the upvalue-index type, and then no upvalue is added to
\* such a frame; the indices of the upvalues of a frame are 0, 1, 2, ... within
\* the index type: none wraps around or repeats.
C30_UpvalueLimit ==
    /\ [](\A f \in 1..Top : \A i \in 1..Len(frames[f].upvalues) :
              frames[f].upvalues[i].index = i - 1 /\ i - 1 <= UpvalueIndexMax)
    /\ [][IsResolveUpval /\ Top > 0 /\ ~HasUpval(frames[Top], ret'.name)
              /\ Binders(ret'.name) # {} =>
            LET full == CaptureChain(ret'.name) \cap FullFrames
            IN /\ ret'.res = <<"InternalLimit">> <=> full # {}
               /\ \A f \in full : frames'[f].upvalues = frames[f].upvalues]_vars

\* InternalLimit has been returned for a name that the frame below the top one
\* holds as an upvalue, because the top frame is full.
C30_Witness ==
    /\ ret.op = "resolve_or_create_upval"
    /\ ~panicked
    /\ ret.res = <<"InternalLimit">>
    /\ Top >= 2
    /\ HasUpval(frames[Top - 1], ret.name)
    /\ ~HasUpval(frames[Top], ret.name)
    /\ Len(frames[Top].upvalues) = UpvalueIndexMax + 1

\* ------------------------------------------------------------------ build driver
\* src/src/lib.rs.  ModuleSource::source_text, ParseContext::parse_ast and
\* Compiler::compile_program are defined outside the files at hand: each is a
\* call that returns Ok or Err, and what it returns is an input of the driver.

is_err(result) == "err" \in DOMAIN result

BuildErrors_Source(error) == [Source |-> error]
BuildErrors_Syntax(errs) == [Syntax |-> errs]
BuildErrors_Compile(errs) == [Compile |-> errs]

\* build_module up to its call of build_source: the source is read.
build_module(b, source_text) ==
    LET read == [b EXCEPT !.entered = Append(@, "source"),
                          !.source_text = Some(source_text)]
    IN IF is_err(source_text)
       THEN [read EXCEPT !.pc = "done",
                         !.result = Some(Err(BuildErrors_Source(source_text.err)))]
       ELSE [read EXCEPT !.pc = "parsing"]

\* Mutant: the syntax errors are dropped and the statements that were parsed
\* before them are compiled.
parsing_keeps_going(b, parse_result) ==
    [b EXCEPT !.entered = Append(@, "parse"),
              !.parse_result = Some(parse_result),
              !.pc = "compilation"]

\* build_source, the parsing stage.
parsing(b, parse_result) ==
    LET parsed == [b EXCEPT !.entered = Append(@, "parse"),
                            !.parse_result = Some(parse_result)]
    IN IF is_err(parse_result)
       THEN [parsed EXCEPT !.pc = "done",
                           !.result = Some(Err(BuildErrors_Syntax(parse_result.err)))]
       ELSE [parsed EXCEPT !.pc = "compilation"]

\* build_source, the compilation stage.
compilation(b, compile_result) ==
    LET compiled == [b EXCEPT !.entered = Append(@, "compile"),
                              !.compile_result = Some(compile_result),
                              !.pc = "done"]
    IN IF is_err(compile_result)
       THEN [compiled EXCEPT
               !.result = Some(Err(BuildErrors_Compile(compile_result.err)))]
       ELSE [compiled EXCEPT !.result = Some(Ok(compile_result.ok))]

\* ------------------------------------------------------------------ build driver: inputs

MaxBuildErrors == 2

\* The non-empty lists of at most MaxBuildErrors errors of the given kinds.
ErrorLists(kinds) == UNION {[1..n -> kinds] : n \in 1..MaxBuildErrors}

SourceTexts == {"a", "b", "c"}
SourceResults == {Ok(text) : text \in SourceTexts} \cup {Err(e) : e \in {"NotFound", "InvalidData"}}

\* parse_ast returns the statements, or the errors it met (at least one).
ParseResults ==
    {Ok(ast) : ast \in {<<>>, <<"stmt">>, <<"stmt", "stmt">>}}
        \cup {Err(errs) : errs \in ErrorLists({"LexerError", "SyntaxError"})}

\* compile_program returns the program of the statements, or the errors it met.
CompileResults(ast) ==
    {Ok([compiled |-> ast])}
        \cup {Err(errs) : errs \in ErrorLists({"InternalLimit", "InvalidBreak"})}

\* ------------------------------------------------------------------ build driver: actions

\* build_module is called: it reads the source of the module.
BuildModule ==
    /\ build.pc = "start"
    /\ \E source_text \in SourceResults :
         /\ build' = build_module(build, source_text)
         /\ ret' = [op |-> "build_module", source_text |-> source_text]
    /\ UNCHANGED <<panicked, scopeVars, genVars, gcVars, stack>>

\* build_source is called with a source text that the caller has read.
BuildSource ==
    /\ build.pc = "start"
    /\ \E text \in SourceTexts :
         /\ build' = [build EXCEPT !.pc = "parsing", !.source_text = Some(Ok(text))]
         /\ ret' = [op |-> "build_source", source_text |-> Ok(text)]
    /\ UNCHANGED <<panicked, scopeVars, genVars, gcVars, stack>>

\* parse_source returns.
Parsing ==
    /\ build.pc = "parsing"
    /\ \E parse_result \in ParseResults :
         /\ build' = parsing(build, parse_result)
         /\ ret' = [op |-> "parse_source", res |-> parse_result]
    /\ UNCHANGED <<panicked, scopeVars, genVars, gcVars, stack>>

\* compile_ast returns.
Compilation ==
    /\ build.pc = "compilation"
    /\ \E compile_result \in CompileResults(Unwrap(build.parse_result).ok) :
         /\ build' = compilation(build, compile_result)
         /\ ret' = [op |-> "compile_ast", res |-> compile_result]
    /\ UNCHANGED <<panicked, scopeVars, genVars, gcVars, stack>>

NextBuild == BuildModule \/ BuildSource \/ Parsing \/ Compilation

SpecBuild == Init /\ [][NextBuild]_vars

\* ------------------------------------------------------------------ C31

StageReturned(field) == build[field] # None
StageFailed(field) == StageReturned(field) /\ is_err(Unwrap(build[field]))
StageSucceeded(field) == StageReturned(field) /\ ~is_err(Unwrap(build[field]))
BuildFailedWith(kind) ==
    /\ build.result # None
    /\ is_err(Unwrap(build.result))
    /\ kind \in DOMAIN Unwrap(build.result).err
BuildSucceeded == build.result # None /\ ~is_err(Unwrap(build.result))

\* C31: the build enters its stages in the order source reading, parsing,
\* compilation, and stops at the first that fails: a failed source read returns
\* BuildErrors::Source and nothing is parsed; parser errors return
\* BuildErrors::Syntax and the compile stage is never entered;
\* BuildErrors::Compile is returned only after a successful parse; a program is
\* returned only when every stage that ran succeeded.
C31_StageOrdering ==
    /\ build.entered \in
         {<<>>, <<"source">>, <<"source", "parse">>, <<"source", "parse", "compile">>,
          <<"parse">>, <<"parse", "compile">>}
    /\ StageFailed("source_text") =>
         /\ build.result = Some(Err(BuildErrors_Source(Unwrap(build.source_text).err)))
         /\ build.entered = <<"source">>
         /\ ~StageReturned("parse_result")
    /\ StageFailed("parse_result") =>
         /\ build.result = Some(Err(BuildErrors_Syntax(Unwrap(build.parse_result).err)))
         /\ build.pc = "done"
         /\ ~StageReturned("compile_result")
         /\ \A i \in 1..Len(build.entered) : build.entered[i] # "compile"
    /\ BuildFailedWith("Source") => StageFailed("source_text")
    /\ BuildFailedWith("Syntax") => StageFailed("parse_result")
    /\ BuildFailedWith("Compile") =>
         /\ StageSucceeded("source_text")
         /\ StageSucceeded("parse_result")
         /\ build.result = Some(Err(BuildErrors_Compile(Unwrap(build.compile_result).err)))
    /\ BuildSucceeded =>
         /\ StageSucceeded("source_text")
         /\ StageSucceeded("parse_result")
         /\ StageSucceeded("compile_result")
         /\ build.result = Some(Ok(Unwrap(build.compile_result).ok))
    /\ StageReturned("compile_result") => StageSucceeded("parse_result")
    /\ StageReturned("parse_result") => StageSucceeded("source_text")

\* build_module has read its source, and the parser has returned two errors.
C31_Witness ==
    /\ build.entered = <<"source", "parse">>
    /\ BuildFailedWith("Syntax")
    /\ Len(Unwrap(build.parse_result).err) = 2

\* ------------------------------------------------------------------ parser error context
\* src/src/parser/errors.rs.  A Span is the index of a token's first character
\* and its length; a TokenMeta is known here by its span alone.

Span(index, length) == [index |-> index, length |-> length]

span_lt(first, second) == first.index < second.index

\* ContextFrame::set_start and set_end.
set_start(frame, token) == [frame EXCEPT !.start = Some(token.span)]
set_end(frame, token) == [frame EXCEPT !.end = Some(token.span)]

set_span(frame, start, end) == [frame EXCEPT !.start = start, !.end = end]

\* Mutant: the bounds of the inner frame replace those of the outer frame.
extend_overwrites(frame, other) ==
    [frame EXCEPT !.start = IF IsSome(other.start) THEN other.start ELSE @,
                  !.end = IF IsSome(other.end) THEN other.end ELSE @]

\* ContextFrame::extend.
extend(frame, other) ==
    LET start ==
          IF IsSome(frame.start) /\ IsSome(other.start)
          THEN IF span_lt(Unwrap(other.start), Unwrap(frame.start))
               THEN other.start ELSE frame.start
          ELSE IF IsSome(other.start) THEN other.start ELSE frame.start
        end ==
          IF IsSome(frame.end) /\ IsSome(other.end)
          THEN IF span_lt(Unwrap(frame.end), Unwrap(other.end))
               THEN other.end ELSE frame.end
          ELSE IF IsSome(other.end) THEN other.end ELSE frame.end
    IN [frame EXCEPT !.start = start, !.end = end]

\* ErrorContext::frame: the last frame of the stack.
frame(s) == s[Len(s)]

\* ErrorContext::frame_mut followed by a change of the frame.
frame_mut(s, changed) == [s EXCEPT ![Len(s)] = changed]

\* ErrorContext::push and push_continuation.
push(s, tag) == Append(s, ContextFrame_new(tag))
push_continuation(s, tag) ==
    LET start == frame(s).start
        pushed == push(s, tag)
    IN frame_mut(pushed, set_span(frame(pushed), start, None))

\* Mutant: pop asserts only that the stack holds a frame, as take does.
pop_as_take(s) ==
    IF Len(s) > 0
    THEN [ok |-> TRUE, stack |-> SubSeq(s, 1, Len(s) - 1), frame |-> <<frame(s)>>]
    ELSE [ok |-> FALSE, stack |-> s, frame |-> <<>>]

\* ErrorContext::pop: the assertion, then the frame that Vec::pop returns.
pop(s) ==
    IF Len(s) > 1
    THEN [ok |-> TRUE, stack |-> SubSeq(s, 1, Len(s) - 1), frame |-> <<frame(s)>>]
    ELSE [ok |-> FALSE, stack |-> s, frame |-> <<>>]

\* ErrorContext::pop_extend.
pop_extend(s) ==
    LET popped == pop(s)
    IN IF popped.ok
       THEN [popped EXCEPT
               !.stack = frame_mut(@, extend(frame(@), Unwrap(popped.frame)))]
       ELSE popped

\* ------------------------------------------------------------------ parser error context: inputs

MaxContexts == 3

\* The tags of the frames that the parser pushes on the base frame.
PushTags == {"StmtMeta", "ExprMeta"}

\* The tokens whose spans the parser records: two of them start at the same
\* index and two have the same length.
Tokens == {[span |-> Span(0, 2)], [span |-> Span(1, 1)], [span |-> Span(1, 2)]}

\* ------------------------------------------------------------------ parser error context: actions

\* The context is dropped once take has consumed it.
Alive == ~panicked /\ ret.op # "take"

ContextCall(op, s) ==
    /\ Alive
    /\ stack' = s
    /\ ret' = [op |-> op]
    /\ UNCHANGED <<panicked, scopeVars, genVars, gcVars, build>>

Push == \E tag \in PushTags :
    Len(stack) < MaxContexts /\ ContextCall("push", push(stack, tag))

PushContinuation == \E tag \in PushTags :
    Len(stack) < MaxContexts
        /\ ContextCall("push_continuation", push_continuation(stack, tag))

SetStart == \E token \in Tokens :
    ContextCall("set_start", frame_mut(stack, set_start(frame(stack), token)))

SetEnd == \E token \in Tokens :
    ContextCall("set_end", frame_mut(stack, set_end(frame(stack), token)))

\* A call of pop or of pop_extend: the failed assertion panics.
Popping(op, popped) ==
    /\ Alive
    /\ stack' = popped.stack
    /\ ret' = [op |-> op]
    /\ panicked' = ~popped.ok
    /\ UNCHANGED <<scopeVars, genVars, gcVars, build>>

Pop == Popping("pop", pop(stack))

PopExtend == Popping("pop_extend", pop_extend(stack))

\* ErrorContext::take consumes the context and returns its last frame.
Take ==
    /\ Alive
    /\ stack' = SubSeq(stack, 1, Len(stack) - 1)
    /\ ret' = [op |-> "take"]
    /\ UNCHANGED <<panicked, scopeVars, genVars, gcVars, build>>

NextContext ==
    Push \/ PushContinuation \/ SetStart \/ SetEnd \/ Pop \/ PopExtend \/ Take

SpecContext == Init /\ [][NextContext]_vars

\* ------------------------------------------------------------------ C32

\* The step is a pop_extend that returned.
PopExtended == ret'.op = "pop_extend" /\ ~panicked'

\* The bound that two frames give when the lesser (or the greater) index wins.
Leftmost(a, b) == IF b.index < a.index THEN b.index ELSE a.index
Rightmost(a, b) == IF b.index > a.index THEN b.index ELSE a.index

\* One bound of the outer frame after the fold: the inner bound when the outer
\* one is missing, the outer bound when the inner one is missing, and
\* otherwise one of the two, with the index that wins.
Folded(outer, folded, after, Wins(_, _)) ==
    IF ~IsSome(outer) THEN after = folded
    ELSE IF ~IsSome(folded) THEN after = outer
    ELSE /\ after \in {outer, folded}
         /\ Unwrap(after).index = Wins(Unwrap(outer), Unwrap(folded))

\* C32: pop_extend removes the inner frame and folds it into the outer one: the
\* outer start becomes the start with the smaller index of the two and the outer
\* end the end with the larger index; a bound that the outer frame lacks is
\* taken from the inner frame, and a bound that the outer frame has is never
\* cleared, its start index never grows and its end index never falls.
C32_SpanMerge ==
    [][PopExtended =>
         LET n == Len(stack)
             outer == stack[n - 1]
             folded == stack[n]
             after == stack'[n - 1]
         IN /\ n > 1
            /\ Len(stack') = n - 1
            /\ \A i \in 1..(n - 2) : stack'[i] = stack[i]
            /\ after.tag = outer.tag
            /\ Folded(outer.start, folded.start, after.start, Leftmost)
            /\ Folded(outer.end, folded.end, after.end, Rightmost)
            /\ IsSome(outer.start) =>
                 /\ IsSome(after.start)
                 /\ Unwrap(after.start).index <= Unwrap(outer.start).index
            /\ IsSome(outer.end) =>
                 /\ IsSome(after.end)
                 /\ Unwrap(after.end).index >= Unwrap(outer.end).index]_vars

\* pop_extend has folded a frame whose start lies after the start of the outer
\* frame and whose end lies after its end: the outer frame kept its start and
\* took the end.
C32_Witness ==
    /\ ret.op = "pop_extend"
    /\ ~panicked
    /\ Len(stack) = 2
    /\ frame(stack).start = Some(Span(0, 2))
    /\ frame(stack).end = Some(Span(1, 2))

\* ------------------------------------------------------------------ C38

\* The step is a call of pop or of pop_extend on a context that holds its base
\* frame alone.
PopsTheBase == ret'.op \in {"pop", "pop_extend"} /\ Len(stack) = 1

\* C38: from ErrorContext::new on, whatever is pushed and popped, the stack of a
\* context that has not been consumed holds at least its base frame, so that
\* frame and frame_mut find a last frame; a pop or a pop_extend of a context
\* that holds its base frame alone fails its assertion and removes nothing.
C38_NeverEmpties ==
    /\ [](ret.op # "take" => Len(stack) >= 1 /\ stack[1].tag = "TopLevel")
    /\ [][PopsTheBase => panicked' /\ stack' = stack]_vars

\* pop_extend was called on the base frame alone, after the frames pushed on it
\* had been popped.
C38_Witness ==
    /\ ret.op = "pop_extend"
    /\ panicked
    /\ Len(stack) = 1
    /\ IsSome(stack[1].end)

\* ------------------------------------------------------------------ C34

\* The last call has returned the left operand shifted by count bits: to the
\* left, the bits that leave the width are lost; to the right, the sign is kept.
ReturnedShifted(count) ==
    /\ ReturnedSome
    /\ IsInteger(ret.res.ok[1])
    /\ LET value == ret.res.ok[1].int
           scale == 2 ^ count
       IN IF ret.op = "eval_shl"
          THEN (value - ret.lhs.int * scale) % 2 ^ IntBits = 0
          ELSE value * scale <= ret.lhs.int /\ ret.lhs.int < (value + 1) * scale

\* An Integer has been shifted by an Integer count that is not negative.
ShiftedByCount ==
    Called(ShiftNames) /\ IsInteger(ret.lhs) /\ IsInteger(ret.rhs) /\ ret.rhs.int >= 0

\* C34: for an Integer left operand and every Integer shift count that is not
\* negative, eval_shl and eval_shr return the Integer shifted by the count when
\* the count is below the width of the integer type, and the OverflowError when
\* it is the width or more, the counts above u32::MAX included.
C34_CheckedShiftCount ==
    ShiftedByCount =>
        IF ret.rhs.int < IntBits
        THEN ReturnedShifted(ret.rhs.int)
        ELSE ReturnedError("OverflowError")

\* eval_shl of 1 by the largest integer, which is no u32, has aborted.
C34_Witness ==
    /\ Called({"eval_shl"})
    /\ ret.lhs = [int |-> 1]
    /\ ret.rhs = [int |-> Largest]
    /\ Largest > U32Max
    /\ Aborts
    /\ panicked

\* What the code does for the counts of C34: the shifted Integer below the
\* width, the OverflowError from the width to u32::MAX, and a panic above.
C34_CheckedWithinU32 ==
    ShiftedByCount =>
        /\ ret.rhs.int < IntBits => ReturnedShifted(ret.rhs.int)
        /\ IntBits <= ret.rhs.int /\ ret.rhs.int <= U32Max => ReturnedError("OverflowError")
        /\ ret.rhs.int > U32Max <=> Aborts

\* ------------------------------------------------------------------ C35

\* The step is a call of resolve_or_create_upval that returns InternalLimit.
ResolveFailed == IsResolveUpval /\ ~panicked /\ ret'.res = <<"InternalLimit">>

\* The captured flags of the locals of a scope stack, scope by scope.
CapturedFlags(scopes) ==
    [i \in 1..Len(scopes) |->
        [j \in 1..Len(scopes[i].locals) |-> scopes[i].locals[j].captured]]

\* The scopes of a stack with the captured flags left out.
Uncaptured(scopes) ==
    [i \in 1..Len(scopes) |->
        [scopes[i] EXCEPT !.locals =
            [j \in 1..Len(scopes[i].locals) |-> [scopes[i].locals[j] EXCEPT !.captured = FALSE]]]]

\* The original statement of C35: when resolve_or_create_upval returns
\* InternalLimit, the upvalue tables of all call frames and the captured flags
\* of all locals are the same as before the call.
C35_Original ==
    [][ResolveFailed =>
         /\ Upvalues(frames') = Upvalues(frames)
         /\ \A s \in 0..Top : CapturedFlags(Stack(s)') = CapturedFlags(Stack(s))]_vars

\* C35: when resolve_or_create_upval returns InternalLimit, the frame of the
\* capture chain that was full, outermost of the full ones, and every frame
\* inside it have the upvalue tables they had before the call; each frame of the
\* chain outside it keeps the upvalue that the call created there for the name,
\* and the local that the outermost of these upvalues targets stays marked as
\* captured.  Nothing else changes: no other table, no other captured flag, no
\* scope and no local.
C35_FailureKeepsOuterUpvalues ==
    [][ResolveFailed =>
         LET name == ret'.name
             nearest == CHOOSE s \in Binders(name) : \A other \in Binders(name) : other <= s
             full == CaptureChain(name) \cap FullFrames
             failing == CHOOSE f \in full : \A other \in full : f <= other
             created == (nearest + 1)..(failing - 1)
             bound == LiveIn(Stack(nearest), name)
         IN /\ Binders(name) # {}
            /\ full # {}
            /\ Len(frames') = Top
            /\ \A f \in 1..Top :
                 IF f \in created
                 THEN /\ Len(frames'[f].upvalues) = Len(frames[f].upvalues) + 1
                      /\ SubSeq(frames'[f].upvalues, 1, Len(frames[f].upvalues))
                            = frames[f].upvalues
                      /\ frames'[f].upvalues[Len(frames'[f].upvalues)].name = name
                 ELSE frames'[f].upvalues = frames[f].upvalues
            /\ \A s \in 0..Top :
                 /\ Uncaptured(Stack(s)') = Uncaptured(Stack(s))
                 /\ \A i \in 1..Len(Stack(s)) : \A j \in 1..Len(Stack(s)[i].locals) :
                      LET before == Stack(s)[i].locals[j]
                          after == Stack(s)'[i].locals[j]
                          target == /\ s = nearest /\ bound /\ created # {}
                                    /\ i = InnermostHolder(Stack(s), name)
                                    /\ before.name = name
                      IN after.captured = (before.captured \/ target)]_vars

\* InternalLimit has been returned by a call that created an upvalue for the
\* name in the frame below the top one, whose local of a stack further out it
\* captured, before it found the top frame full.
C35_Witness ==
    /\ ret.op = "resolve_or_create_upval"
    /\ ~panicked
    /\ ret.res = <<"InternalLimit">>
    /\ Top >= 2
    /\ HasUpval(frames[Top - 1], ret.name)
    /\ ~HasUpval(frames[Top], ret.name)
    /\ \E i \in 1..Len(frames[Top - 1].upvalues) :
         /\ frames[Top - 1].upvalues[i].name = ret.name
         /\ frames[Top - 1].upvalues[i].target[1] = "Local"
         /\ \E k \in 1..Len(Stack(Top - 2)) : \E j \in 1..Len(Stack(Top - 2)[k].locals) :
              /\ Stack(Top - 2)[k].locals[j].name = ret.name
              /\ Stack(Top - 2)[k].locals[j].captured

\* ------------------------------------------------------------------ C36

\* Scopes, frames and locals, in either build: the operations that change the
\* scope stacks.
NextSlots ==
    \/ Structure(PlainTags, PlainLabels)
    \/ \E decl \in PlainDecls, name \in Names : InsertLocal(decl, name)

SpecSlots == Init /\ [][NextSlots]_vars

\* C36: whatever scopes and frames are pushed and popped and whatever locals are
\* declared, the live locals of each call frame and of the top level, read from
\* the outermost scope to the innermost and in declaration order within a
\* scope, carry the slots 0, 1, ..., n - 1; no two live locals of one frame
\* share a slot, and the depth that a scope records is its position in its
\* scope stack, counted from 0.
C36_DenseSlots ==
    \A s \in 0..Top :
        LET live == Flat(Stack(s))
        IN /\ \A i \in 1..Len(live) : live[i].index = i - 1
           /\ \A i, j \in 1..Len(live) : live[i].index = live[j].index => i = j
           /\ \A i \in 1..Len(Stack(s)) : Stack(s)[i].depth = i - 1

\* A local has been declared in the inner scope of a frame whose outer scope
\* holds a local, in the build that does not stop at a frame left without a
\* scope.
C36_Witness ==
    /\ ret.op = "insert_local"
    /\ ~panicked
    /\ ~debug_assertions
    /\ Top >= 1
    /\ Len(Stack(Top)) = 2
    /\ Len(Stack(Top)[1].locals) = 1
    /\ Len(Stack(Top)[2].locals) = 1
    /\ Stack(Top)[2].locals[1].index = 1

\* ------------------------------------------------------------------ C37

====
